---- MODULE Spec2Model ----
(***************************************************************************)
(* A model of the amazon-go client: the transport (Client.doRequest with   *)
(* its rate-limit gate, retry loop and cookie merge) and the fetch         *)
(* orchestrator of orders.go (year selection, per-year pagination, date    *)
(* filtering).                                                             *)
(*                                                                         *)
(* Time is counted in whole seconds and kept as distances: how long ago    *)
(* lastRequest was written, how long ago the latest request went out, how  *)
(* much of a time.Sleep is left.  A distance that only matters up to       *)
(* rateLimit stops growing there.                                          *)
(***************************************************************************)
EXTENDS Integers, Sequences, FiniteSets, TLC

\* ------------------------------------------------------------------ bounds

\* A goroutine makes up to MaxCalls calls of doRequest in a row.
MaxCalls == 2

\* WithMaxRetries is called with a value of -1 .. MaxRetriesCfg.
MaxRetriesCfg == 2

\* WithRateLimit is called with a value of 1 .. MaxRateLimitCfg seconds.
MaxRateLimitCfg == 2

\* FetchOptions.Year and the current year lie in 1 .. MaxYear (0: unset).
MaxYear == 2

\* A year has DaysPerYear days; a date is a day number (0: the zero time).
DaysPerYear == 2

\* fetchYearOrders is followed for up to MaxPages list pages of one year.
MaxPages == 3

\* FetchAllTransactions is called with up to MaxIDs order identifiers.
MaxIDs == 3

\* A list page shows up to MaxCards order cards.
MaxCards == 3

\* A detail page has up to MaxLinks product links in its shipment
\* sections, up to MaxPrices unitPrice regions and up to MaxQtys quantity
\* regions.
MaxLinks == 3
MaxPrices == 3
MaxQtys == 2

\* A transactions page has up to MaxNodes status headers, date containers
\* and line items.
MaxNodes == 4

\* A caller of the CookieStore calls Set up to MaxSets times.
MaxSets == 3

\* A curl command has up to MaxCurlLen characters.
MaxCurlLen == 6

\* The header list of an order card has up to MaxFragments items.
MaxFragments == 3

\* ------------------------------------------------------- program constants

\* defaultRateLimit = 1 * time.Second; defaultMaxRetries = 3
defaultRateLimit == 1
defaultMaxRetries == 3

\* pageSize := 10
pageSize == 10

\* time.Sleep(5 * time.Second) after an HTTP 429
throttlePause == 5

\* minRequired := 4
minRequired == 4

\* http.StatusOK
StatusOK == 200

\* http.StatusTooManyRequests, http.StatusForbidden, http.StatusUnauthorized
StatusTooManyRequests == 429
StatusForbidden == 403
StatusUnauthorized == 401

\* ---------------------------------------------------------------- universe

\* The goroutines that call doRequest on the one Client.
Procs == {"g1", "g2"}

NoProc == "none"

\* What httpClient.Do can come back with: a network-level failure
\* (err != nil and no response), or a response with one of these status
\* codes.
Statuses == {200, 500, StatusUnauthorized, StatusForbidden,
             StatusTooManyRequests}
NetErr == [neterr |-> TRUE, status |-> 0]
Outcomes == {NetErr} \cup {[neterr |-> FALSE, status |-> s] : s \in Statuses}

\* EssentialCookies()
EssentialCookies ==
    <<"session-id", "session-id-time", "session-token", "ubid-main",
      "at-main", "sess-at-main", "sst-main", "x-main", "lc-main",
      "i18n-prefs">>

\* The cookie names a store may hold: the essential ones and one more.
CookieNames ==
    {EssentialCookies[i] : i \in DOMAIN EssentialCookies} \cup {"test-cookie"}
Absent == "absent"

\* The Set-Cookie lists a response can carry (resp.Cookies()).
RespCookieLists ==
    { <<>>,
      << [name |-> "session-id", value |-> "a"] >>,
      << [name |-> "session-id", value |-> "b"],
         [name |-> "session-token", value |-> "b"] >> }

NilResp == [status |-> 0, cookies |-> <<>>]

\* No file at the path of the cookie file.
NoFile == [kind |-> "none", cookies |-> <<>>]

\* A function that has not returned yet, and one that returned v.
NotYet == [done |-> FALSE, value |-> <<>>]
Returned(v) == [done |-> TRUE, value |-> v]

NoResult == [kind |-> "none", attempts |-> 0]

\* A nil *Order.
NoOrder == [ID |-> <<>>]

Min(a, b) == IF a < b THEN a ELSE b
Max(a, b) == IF a > b THEN a ELSE b

\* -------------------------------------------------------------------- state

VARIABLES
    rateLimit,    \* Client.rateLimit
    maxRetries,   \* Client.maxRetries
    autoSave,     \* Client.autoSave
    stamped,      \* !c.lastRequest.IsZero()
    sinceStamp,   \* time.Since(c.lastRequest), up to rateLimit
    mu,           \* Client.mu: the goroutine holding it, or NoProc
    cookies,      \* CookieStore.cookies: name -> value or Absent
    file,         \* the cookie file as last written by Save
    pc,           \* each goroutine's position in doRequest
    attempt,      \* doRequest's loop variable
    timer,        \* what is left of the goroutine's time.Sleep
    err,          \* doRequest's local err (TRUE: non-nil)
    resp,         \* doRequest's local resp
    idx,          \* UpdateFromResponse's position in resp.Cookies()
    reqCookies,   \* the Cookie header setCookies put on the request
    result,       \* what doRequest returned
    outcomes,     \* history: what each attempt of the call ended in
    pauses,       \* history: seconds slept between consecutive attempts
    slept,        \* history: seconds of time.Sleep since the last attempt
    sent,         \* history: whether any request has gone out
    sinceSend,    \* history: time since the latest httpClient.Do started,
                  \*          up to rateLimit
    saveCalls,    \* history: how many times the call ran CookieStore.Save
    saveFailed,   \* history: whether a Save of the call returned an error
    callsLeft,    \* workload: the doRequest calls each goroutine still makes
    opts,         \* the FetchOptions of the FetchOrders call
    currentYear,  \* time.Now().Year(), 0 until determineYears reads it
    cancelled,    \* whether ctx is done
    opc,          \* the position of the FetchOrders call
    years,        \* fetchOrderSummaries: years
    yi,           \* fetchOrderSummaries: the index of the year in years
    allSummaries, \* fetchOrderSummaries: allSummaries
    yearSummaries,\* fetchYearOrders: allSummaries
    startIndex,   \* fetchYearOrders: startIndex
    pattern,      \* the server: the dates its list pages of the year show
    reqs,         \* history: the list-page URLs requested for the year
    pageLens,     \* history: the numbers of summaries those pages yielded
    base,         \* history: allSummaries before the year's filter loop
    orders,       \* what FetchOrders returned
    oerr,         \* the error the public operation returned ("nil": none)
    authSeen,     \* history: a get of the operation ended in 401 or 403
    gets,         \* history: the detail and transaction pages requested,
                  \*   each with how its fetch and parse went
    orderIDs,     \* the order identifiers the operation is called with
    ti,           \* FetchAllTransactions: the index in orderIDs
    txResult,     \* FetchAllTransactions: result
    retOrder,     \* the *Order the operation returned
    retTxs,       \* the []*Transaction the operation returned
    fn,           \* the parsing function that is called
    input,        \* its argument: the page read, or the curl command
    output,       \* whether it has returned, and what
    cookieFile,   \* the CookieFile at CookieStore.filePath, or NoFile
    store2,       \* the cookies of a second CookieStore on that file
    spc,          \* the position of the caller of the CookieStore
    sets          \* history: the cookies the caller has handed to Set

cfgVars == <<rateLimit, maxRetries, autoSave>>
clockVars == <<stamped, sinceStamp, sent, sinceSend, timer>>
histVars == <<outcomes, pauses, slept, saveCalls, saveFailed, callsLeft>>
transportVars ==
    <<rateLimit, maxRetries, autoSave, stamped, sinceStamp, mu, cookies,
      file, pc, attempt, timer, err, resp, idx, reqCookies, result,
      outcomes, pauses, slept, sent, sinceSend, saveCalls, saveFailed,
      callsLeft>>
txVars == <<orderIDs, ti, txResult, retOrder, retTxs>>
ordVars == <<opts, currentYear, cancelled, opc, years, yi, allSummaries,
             yearSummaries, startIndex, pattern, reqs, pageLens, base,
             orders, oerr, authSeen, gets, txVars>>
parseVars == <<fn, input, output>>
storeVars == <<cookieFile, store2, spc, sets>>
restVars == <<parseVars, storeVars>>
vars == <<transportVars, ordVars, restVars>>

\* ------------------------------------------------------------- cookie store

StoreSetIfAbsent(store, c) ==
    IF store[c.name] = Absent THEN [store EXCEPT ![c.name] = c.value]
    ELSE store

\* CookieStore.Set: s.cookies[cookie.Name] = cookie
StoreSet(store, c) == [store EXCEPT ![c.name] = c.value]

\* NewCookieStore on a file that does not exist: an empty map.
EmptyStore == [n \in CookieNames |-> Absent]

\* A store that holds the cookies of the names in S.
StoreOf(S) == [n \in CookieNames |-> IF n \in S THEN "a" ELSE Absent]

\* CookieStore.Count: len(s.cookies)
Count(store) == Cardinality({n \in CookieNames : store[n] # Absent})

\* HasEssentialCookies, its loop over the first n essential names:
\*   if s.Get(name) != nil { count++ }
RECURSIVE CountEssential(_, _)
CountEssential(store, n) ==
    IF n = 0 THEN 0
    ELSE CountEssential(store, n - 1)
           + (IF store[EssentialCookies[n]] # Absent THEN 1 ELSE 0)

\* HasEssentialCookies: return count >= minRequired
HasEssentialCookies(store) ==
    CountEssential(store, Len(EssentialCookies)) >= minRequired

\* ---------------------------------------------------------------- transport

\* The rate-limit gate: how long doRequest sleeps before it stamps
\* lastRequest (0: it does not sleep).
\*   if !c.lastRequest.IsZero() { elapsed := time.Since(c.lastRequest)
\*       if elapsed < c.rateLimit { time.Sleep(c.rateLimit - elapsed) } }
GateDelay(isSet, elapsed, limit) ==
    IF isSet /\ elapsed < limit THEN limit - elapsed ELSE 0

\* c.mu.Lock() blocks until no goroutine holds the mutex.
CanLockUnguarded(m) == TRUE

CanLock(m) == m = NoProc

\* time.Duration(attempt) * time.Second
BackoffFixed(a) == 1

Backoff(a) == a

LoopContinuesAlways(a, retries) == TRUE

\* for attempt := 0; attempt <= c.maxRetries; attempt++
LoopContinues(a, retries) == a <= retries

\* resp.StatusCode == http.StatusForbidden || ... == http.StatusUnauthorized
IsAuthFailureForbiddenOnly(status) == status = StatusForbidden

IsAuthFailure(status) ==
    status = StatusForbidden \/ status = StatusUnauthorized

\* for _, cookie := range resp.Cookies()
CookiesOfButLast(r) == SubSeq(r.cookies, 1, Len(r.cookies) - 1)

CookiesOf(r) == r.cookies

\* The Client as NewClient leaves it, whatever its options, when
\* NewCookieStore read the cookies of store from the cookie file.
ClientWith(store) ==
    /\ stamped = FALSE
    /\ sinceStamp = 0
    /\ mu = NoProc
    /\ cookies = store
    /\ file = store
    /\ pc = [p \in Procs |-> "idle"]
    /\ attempt = [p \in Procs |-> 0]
    /\ timer = [p \in Procs |-> 0]
    /\ err = [p \in Procs |-> FALSE]
    /\ resp = [p \in Procs |-> NilResp]
    /\ idx = [p \in Procs |-> 0]
    /\ reqCookies = [p \in Procs |-> EmptyStore]
    /\ result = [p \in Procs |-> NoResult]
    /\ outcomes = [p \in Procs |-> <<>>]
    /\ pauses = [p \in Procs |-> <<>>]
    /\ slept = [p \in Procs |-> 0]
    /\ sent = FALSE
    /\ sinceSend = 0
    /\ saveCalls = [p \in Procs |-> 0]
    /\ saveFailed = [p \in Procs |-> FALSE]

\* The Client as NewClient leaves it when there is no cookie file yet.
InitClient == ClientWith(EmptyStore)

\* A second passes.  A sleep may last longer than asked and an HTTP exchange
\* takes any time, so nothing forces a goroutine to move before the tick.
Tick ==
    /\ \E p \in Procs : pc[p] \notin {"idle", "done"} \/ callsLeft[p] > 0
    /\ sinceStamp' = IF stamped THEN Min(sinceStamp + 1, rateLimit) ELSE 0
    /\ sinceSend' = IF sent THEN Min(sinceSend + 1, rateLimit) ELSE 0
    /\ timer' = [p \in Procs |-> Max(timer[p] - 1, 0)]
    /\ UNCHANGED <<cfgVars, stamped, sent, mu, cookies, file, pc, attempt,
                   err, resp, idx, reqCookies, result, histVars>>
    /\ UNCHANGED <<ordVars, restVars>>

\* A goroutine enters doRequest and takes the mutex: c.mu.Lock()
Lock(p) ==
    /\ pc[p] \in {"idle", "done"}
    /\ callsLeft[p] > 0
    /\ CanLock(mu)
    /\ mu' = p
    /\ callsLeft' = [callsLeft EXCEPT ![p] = @ - 1]
    /\ pc' = [pc EXCEPT ![p] = "gate"]
    /\ result' = [result EXCEPT ![p] = NoResult]
    /\ UNCHANGED <<cfgVars, clockVars, cookies, file, attempt, err, resp, idx,
                   reqCookies, outcomes, pauses, slept, saveCalls, saveFailed>>
    /\ UNCHANGED <<ordVars, restVars>>

\* The rate-limit check under the mutex; time.Sleep starts when it is due.
Gate(p) ==
    /\ pc[p] = "gate"
    /\ IF GateDelay(stamped, sinceStamp, rateLimit) > 0
         THEN /\ timer' = [timer EXCEPT
                             ![p] = GateDelay(stamped, sinceStamp, rateLimit)]
              /\ pc' = [pc EXCEPT ![p] = "gateSleep"]
         ELSE /\ pc' = [pc EXCEPT ![p] = "stamp"]
              /\ UNCHANGED timer
    /\ UNCHANGED <<cfgVars, stamped, sinceStamp, sent, sinceSend, mu, cookies,
                   file, attempt, err, resp, idx, reqCookies, result, histVars>>
    /\ UNCHANGED <<ordVars, restVars>>

\* the time.Sleep of the gate returns
GateWake(p) ==
    /\ pc[p] = "gateSleep"
    /\ timer[p] = 0
    /\ pc' = [pc EXCEPT ![p] = "stamp"]
    /\ UNCHANGED <<cfgVars, clockVars, mu, cookies, file, attempt, err, resp,
                   idx, reqCookies, result, histVars>>
    /\ UNCHANGED <<ordVars, restVars>>

\* c.lastRequest = time.Now(); c.mu.Unlock()
Stamp(p) ==
    /\ pc[p] = "stamp"
    /\ stamped' = TRUE
    /\ sinceStamp' = 0
    /\ mu' = IF mu = p THEN NoProc ELSE mu
    /\ pc' = [pc EXCEPT ![p] = "headers"]
    /\ UNCHANGED <<cfgVars, sent, sinceSend, timer, cookies, file, attempt,
                   err, resp, idx, reqCookies, result, histVars>>
    /\ UNCHANGED <<ordVars, restVars>>

\* c.setHeaders(req); c.setCookies(req); var resp; var err; attempt := 0
SetHeaders(p) ==
    /\ pc[p] = "headers"
    /\ reqCookies' = [reqCookies EXCEPT ![p] = cookies]
    /\ attempt' = [attempt EXCEPT ![p] = 0]
    /\ pc' = [pc EXCEPT ![p] = "loop"]
    /\ UNCHANGED <<cfgVars, clockVars, mu, cookies, file, err, resp, idx,
                   result, histVars>>
    /\ UNCHANGED <<ordVars, restVars>>

\* The head of the retry loop: leave it when attempt > maxRetries, sleep
\* time.Duration(attempt) seconds before a retry, go straight on to the
\* first attempt.
LoopHead(p) ==
    /\ pc[p] = "loop"
    /\ IF ~LoopContinues(attempt[p], maxRetries)
         THEN /\ pc' = [pc EXCEPT ![p] = "after"]
              /\ UNCHANGED <<timer, slept>>
         ELSE IF attempt[p] > 0
         THEN /\ timer' = [timer EXCEPT ![p] = Backoff(attempt[p])]
              /\ slept' = [slept EXCEPT ![p] = @ + Backoff(attempt[p])]
              /\ pc' = [pc EXCEPT ![p] = "backoff"]
         ELSE /\ pc' = [pc EXCEPT ![p] = "do"]
              /\ UNCHANGED <<timer, slept>>
    /\ UNCHANGED <<cfgVars, stamped, sinceStamp, sent, sinceSend, mu, cookies,
                   file, attempt, err, resp, idx, reqCookies, result, outcomes,
                   pauses, saveCalls, saveFailed, callsLeft>>
    /\ UNCHANGED <<ordVars, restVars>>

\* the time.Sleep before a retry returns
BackoffWake(p) ==
    /\ pc[p] = "backoff"
    /\ timer[p] = 0
    /\ pc' = [pc EXCEPT ![p] = "do"]
    /\ UNCHANGED <<cfgVars, clockVars, mu, cookies, file, attempt, err, resp,
                   idx, reqCookies, result, histVars>>
    /\ UNCHANGED <<ordVars, restVars>>

\* resp, err = c.httpClient.Do(req): the request goes out
Do(p) ==
    /\ pc[p] = "do"
    /\ pc' = [pc EXCEPT ![p] = "await"]
    /\ sent' = TRUE
    /\ sinceSend' = 0
    /\ pauses' = [pauses EXCEPT
                    ![p] = IF outcomes[p] = <<>> THEN @ ELSE Append(@, slept[p])]
    /\ slept' = [slept EXCEPT ![p] = 0]
    /\ UNCHANGED <<cfgVars, stamped, sinceStamp, timer, mu, cookies, file,
                   attempt, err, resp, idx, reqCookies, result, outcomes,
                   saveCalls, saveFailed, callsLeft>>
    /\ UNCHANGED <<ordVars, restVars>>

\* httpClient.Do returns, and the rest of the loop body runs up to its
\* next sleep, continue, break or return.
Respond(p) ==
    /\ pc[p] = "await"
    /\ \E o \in Outcomes, cs \in RespCookieLists :
         /\ outcomes' = [outcomes EXCEPT ![p] = Append(@, o)]
         /\ IF o = NetErr
              THEN \* if err != nil { continue }
                   /\ err' = [err EXCEPT ![p] = TRUE]
                   /\ resp' = [resp EXCEPT ![p] = NilResp]
                   /\ attempt' = [attempt EXCEPT ![p] = @ + 1]
                   /\ pc' = [pc EXCEPT ![p] = "loop"]
                   /\ UNCHANGED <<timer, slept, result>>
              ELSE IF o.status = StatusTooManyRequests
              THEN \* resp.Body.Close(); time.Sleep(5 * time.Second); continue
                   /\ err' = [err EXCEPT ![p] = FALSE]
                   /\ resp' = [resp EXCEPT ![p] = [status |-> o.status, cookies |-> cs]]
                   /\ timer' = [timer EXCEPT ![p] = throttlePause]
                   /\ slept' = [slept EXCEPT ![p] = @ + throttlePause]
                   /\ pc' = [pc EXCEPT ![p] = "throttle"]
                   /\ UNCHANGED <<attempt, result>>
              ELSE IF IsAuthFailure(o.status)
              THEN \* return nil, fmt.Errorf("authentication failed: ...")
                   /\ err' = [err EXCEPT ![p] = FALSE]
                   /\ resp' = [resp EXCEPT ![p] = [status |-> o.status, cookies |-> cs]]
                   /\ result' = [result EXCEPT
                                   ![p] = [kind |-> "autherr", attempts |-> 0]]
                   /\ pc' = [pc EXCEPT ![p] = "ret"]
                   /\ UNCHANGED <<attempt, timer, slept>>
              ELSE \* break
                   /\ err' = [err EXCEPT ![p] = FALSE]
                   /\ resp' = [resp EXCEPT ![p] = [status |-> o.status, cookies |-> cs]]
                   /\ pc' = [pc EXCEPT ![p] = "after"]
                   /\ UNCHANGED <<attempt, timer, slept, result>>
    /\ UNCHANGED <<cfgVars, stamped, sinceStamp, sent, sinceSend, mu, cookies,
                   file, idx, reqCookies, pauses, saveCalls, saveFailed,
                   callsLeft>>
    /\ UNCHANGED <<ordVars, restVars>>

\* the time.Sleep after a 429 returns; continue
ThrottleWake(p) ==
    /\ pc[p] = "throttle"
    /\ timer[p] = 0
    /\ attempt' = [attempt EXCEPT ![p] = @ + 1]
    /\ pc' = [pc EXCEPT ![p] = "loop"]
    /\ UNCHANGED <<cfgVars, clockVars, mu, cookies, file, err, resp, idx,
                   reqCookies, result, histVars>>
    /\ UNCHANGED <<ordVars, restVars>>

AfterLoopSaving(p) ==
    /\ pc[p] = "after"
    /\ IF err[p]
         THEN /\ result' = [result EXCEPT
                              ![p] = [kind |-> "failed",
                                      attempts |-> maxRetries + 1]]
              /\ saveCalls' = [saveCalls EXCEPT ![p] = @ + 1]
              /\ pc' = [pc EXCEPT ![p] = "ret"]
              /\ UNCHANGED idx
         ELSE IF resp[p] = NilResp
         THEN /\ result' = [result EXCEPT
                              ![p] = [kind |-> "panic", attempts |-> 0]]
              /\ pc' = [pc EXCEPT ![p] = "ret"]
              /\ UNCHANGED <<idx, saveCalls>>
         ELSE /\ idx' = [idx EXCEPT ![p] = 1]
              /\ pc' = [pc EXCEPT ![p] = "update"]
              /\ UNCHANGED <<result, saveCalls>>
    /\ UNCHANGED <<cfgVars, clockVars, mu, cookies, file, attempt, err, resp,
                   reqCookies, outcomes, pauses, slept, saveFailed,
                   callsLeft>>
    /\ UNCHANGED <<ordVars, restVars>>

\* After the loop: if err != nil { return nil, "request failed after %d
\* attempts" }; otherwise c.cookieStore.UpdateFromResponse(resp), which
\* dereferences resp (a nil resp panics).
AfterLoop(p) ==
    /\ pc[p] = "after"
    /\ IF err[p]
         THEN /\ result' = [result EXCEPT
                              ![p] = [kind |-> "failed",
                                      attempts |-> maxRetries + 1]]
              /\ pc' = [pc EXCEPT ![p] = "ret"]
              /\ UNCHANGED idx
         ELSE IF resp[p] = NilResp
         THEN /\ result' = [result EXCEPT
                              ![p] = [kind |-> "panic", attempts |-> 0]]
              /\ pc' = [pc EXCEPT ![p] = "ret"]
              /\ UNCHANGED idx
         ELSE /\ idx' = [idx EXCEPT ![p] = 1]
              /\ pc' = [pc EXCEPT ![p] = "update"]
              /\ UNCHANGED result
    /\ UNCHANGED <<cfgVars, clockVars, mu, cookies, file, attempt, err, resp,
                   reqCookies, histVars>>
    /\ UNCHANGED <<ordVars, restVars>>

\* CookieStore.UpdateFromResponse: one s.Set per cookie of the response,
\* each under the store's lock on its own; then, with autoSave, Save.
UpdateFromResponse(p) ==
    /\ pc[p] = "update"
    /\ IF idx[p] <= Len(CookiesOf(resp[p]))
         THEN /\ cookies' = StoreSet(cookies, CookiesOf(resp[p])[idx[p]])
              /\ idx' = [idx EXCEPT ![p] = @ + 1]
              /\ UNCHANGED <<pc, result>>
         ELSE IF autoSave
         THEN /\ pc' = [pc EXCEPT ![p] = "save"]
              /\ UNCHANGED <<cookies, idx, result>>
         ELSE \* return resp, nil
              /\ result' = [result EXCEPT
                              ![p] = [kind |-> "resp", attempts |-> 0]]
              /\ pc' = [pc EXCEPT ![p] = "ret"]
              /\ UNCHANGED <<cookies, idx>>
    /\ UNCHANGED <<cfgVars, clockVars, mu, file, attempt, err, resp,
                   reqCookies, histVars>>
    /\ UNCHANGED <<ordVars, restVars>>

\* if err := c.cookieStore.Save(); err != nil { logger.Warn(...) }
\* return resp, nil.  Save writes the file or fails (directory, disk).
Save(p) ==
    /\ pc[p] = "save"
    /\ \E ok \in BOOLEAN :
         /\ file' = IF ok THEN cookies ELSE file
         /\ saveFailed' = [saveFailed EXCEPT ![p] = @ \/ ~ok]
    /\ saveCalls' = [saveCalls EXCEPT ![p] = @ + 1]
    /\ result' = [result EXCEPT ![p] = [kind |-> "resp", attempts |-> 0]]
    /\ pc' = [pc EXCEPT ![p] = "ret"]
    /\ UNCHANGED <<cfgVars, clockVars, mu, cookies, attempt, err, resp, idx,
                   reqCookies, outcomes, pauses, slept, callsLeft>>
    /\ UNCHANGED <<ordVars, restVars>>

\* doRequest has returned (or panicked): its locals are gone, the caller
\* holds the result.
Return(p) ==
    /\ pc[p] = "ret"
    /\ pc' = [pc EXCEPT ![p] = "done"]
    /\ attempt' = [attempt EXCEPT ![p] = 0]
    /\ timer' = [timer EXCEPT ![p] = 0]
    /\ err' = [err EXCEPT ![p] = FALSE]
    /\ resp' = [resp EXCEPT ![p] = NilResp]
    /\ idx' = [idx EXCEPT ![p] = 0]
    /\ reqCookies' = [reqCookies EXCEPT ![p] = EmptyStore]
    /\ outcomes' = [outcomes EXCEPT ![p] = <<>>]
    /\ pauses' = [pauses EXCEPT ![p] = <<>>]
    /\ slept' = [slept EXCEPT ![p] = 0]
    /\ saveCalls' = [saveCalls EXCEPT ![p] = 0]
    /\ saveFailed' = [saveFailed EXCEPT ![p] = FALSE]
    /\ UNCHANGED <<cfgVars, stamped, sinceStamp, sent, sinceSend, mu, cookies,
                   file, result, callsLeft>>
    /\ UNCHANGED <<ordVars, restVars>>

\* No operation on single orders or their transactions is called.
NoTx ==
    /\ orderIDs = <<>>
    /\ ti = 0
    /\ txResult = <<>>
    /\ retOrder = NoOrder
    /\ retTxs = <<>>

\* No parsing function is called on its own.
NoParse ==
    /\ fn = "none"
    /\ input = <<>>
    /\ output = NotYet

\* No caller works on the CookieStore directly.
NoStore ==
    /\ cookieFile = NoFile
    /\ store2 = EmptyStore
    /\ spc = "off"
    /\ sets = <<>>

\* No FetchOrders call is made.
NoFetch ==
    /\ opts = [StartDate |-> 0, EndDate |-> 0, Year |-> 0, MaxOrders |-> 0,
               IncludeDetails |-> FALSE]
    /\ currentYear = 0
    /\ cancelled = FALSE
    /\ opc = "off"
    /\ years = <<>>
    /\ yi = 0
    /\ allSummaries = <<>>
    /\ yearSummaries = <<>>
    /\ startIndex = 0
    /\ pattern = <<>>
    /\ reqs = <<>>
    /\ pageLens = <<>>
    /\ base = <<>>
    /\ orders = <<>>
    /\ oerr = "nil"
    /\ authSeen = FALSE
    /\ gets = <<>>
    /\ NoTx

Next ==
    \/ Tick
    \/ \E p \in Procs : Lock(p)
    \/ \E p \in Procs : Gate(p)
    \/ \E p \in Procs : GateWake(p)
    \/ \E p \in Procs : Stamp(p)
    \/ \E p \in Procs : SetHeaders(p)
    \/ \E p \in Procs : LoopHead(p)
    \/ \E p \in Procs : BackoffWake(p)
    \/ \E p \in Procs : Do(p)
    \/ \E p \in Procs : Respond(p)
    \/ \E p \in Procs : ThrottleWake(p)
    \/ \E p \in Procs : AfterLoop(p)
    \/ \E p \in Procs : UpdateFromResponse(p)
    \/ \E p \in Procs : Save(p)
    \/ \E p \in Procs : Return(p)

\* One flow of control drives the Client: a goroutine makes up to MaxCalls
\* doRequest calls, one after the other.
Init ==
    /\ InitClient
    /\ rateLimit \in 1..MaxRateLimitCfg
    /\ maxRetries \in -1..MaxRetriesCfg
    /\ autoSave \in BOOLEAN
    /\ callsLeft = [p \in Procs |-> IF p = "g1" THEN MaxCalls ELSE 0]
    /\ NoFetch
    /\ NoParse
    /\ NoStore

Spec == Init /\ [][Next]_vars

\* Two goroutines call doRequest on the one Client at the same time, once
\* each.  The gate does not read maxRetries; the retry budget is kept to
\* 0 or 1 here.
InitConc ==
    /\ InitClient
    /\ rateLimit \in 1..MaxRateLimitCfg
    /\ maxRetries \in 0..1
    /\ autoSave \in BOOLEAN
    /\ callsLeft = [p \in Procs |-> 1]
    /\ NoFetch
    /\ NoParse
    /\ NoStore

SpecConc == InitConc /\ [][Next]_vars

\* The steps of goroutine p inside doRequest.
Step(p) ==
    \/ Gate(p) \/ GateWake(p) \/ Stamp(p) \/ SetHeaders(p)
    \/ LoopHead(p) \/ BackoffWake(p) \/ Do(p) \/ Respond(p)
    \/ ThrottleWake(p) \/ AfterLoop(p) \/ UpdateFromResponse(p)
    \/ Save(p) \/ Return(p)

\* Time passes, a goroutine inside doRequest is scheduled again and again,
\* and httpClient.Do comes back: with its response, or with an error
\* when the client's Timeout has run out.
Fairness == WF_vars(Tick) /\ \A p \in Procs : WF_vars(Step(p))

SpecLive == Init /\ [][Next]_vars /\ Fairness

\* ------------------------------------------------ orchestrator: values

\* A date is a day number, 0 the zero time.Time; days 1 .. DaysPerYear are
\* year 1, the next DaysPerYear days are year 2, and so on.
Dates == 0..(MaxYear * DaysPerYear)

IsZero(d) == d = 0

\* time.Time.Year, of a date that is not the zero time.
YearOf(d) == (d + DaysPerYear - 1) \div DaysPerYear

FirstDay(y) == (y - 1) * DaysPerYear + 1
LastDay(y) == y * DaysPerYear

\* The values of FetchOptions.StartDate and EndDate: the zero time and the
\* first and the last day of each year.  The summaries carry no other
\* dates, so a StartDate between the two filters as the last day does and
\* an EndDate between them as the first day does.
OptionDates ==
    {0} \cup {FirstDay(y) : y \in 1..MaxYear}
        \cup {LastDay(y) : y \in 1..MaxYear}

\* The values of FetchOptions.MaxOrders (0: no limit).
MaxOrdersCfg == {0, 3, pageSize}

\* The values of MaxOrders that IncludeDetails is set with: a limit below
\* one page, which keeps the loop over the summaries short.
DetailedMaxOrders == {m \in MaxOrdersCfg : 0 < m /\ m < pageSize}

\* The numbers of summaries ParseOrderList finds on one list page.
PageLens == {0, 4, pageSize}

\* The dates the summaries of a year's list pages carry, in rotation down
\* a page: the year's last and first day, or no date and those two days.
DatePatterns(y) ==
    {<<LastDay(y), FirstDay(y)>>, <<0, LastDay(y), FirstDay(y)>>}

\* The n summaries ParseOrderList returns for the page of year y that
\* starts after the first start orders.
PageOf(y, start, n, pat) ==
    [i \in 1..n |-> [ID    |-> <<y, start + i>>,
                     Date  |-> pat[((i - 1) % Len(pat)) + 1],
                     Total |-> start + i]]

RECURSIVE SumTo(_, _)
SumTo(lens, i) == IF i = 0 THEN 0 ELSE lens[i] + SumTo(lens, i - 1)

\* ------------------------------------------------- orchestrator: functions

\* for y := endYear; y >= startYear; y-- { years = append(years, y) }
RECURSIVE YearsDown(_, _)
YearsDown(y, startYear) ==
    IF y >= startYear THEN <<y>> \o YearsDown(y - 1, startYear) ELSE <<>>

determineYearsAscending(o, now) ==
    IF o.Year > 0 THEN <<o.Year>>
    ELSE IF ~IsZero(o.StartDate) /\ ~IsZero(o.EndDate)
    THEN [i \in 1..Max(0, YearOf(o.EndDate) - YearOf(o.StartDate) + 1)
             |-> YearOf(o.StartDate) + i - 1]
    ELSE IF ~IsZero(o.EndDate) THEN <<YearOf(o.EndDate)>>
    ELSE <<now>>

determineYears(o, now) ==
    IF o.Year > 0 THEN <<o.Year>>
    ELSE IF ~IsZero(o.StartDate) /\ ~IsZero(o.EndDate)
    THEN YearsDown(YearOf(o.EndDate), YearOf(o.StartDate))
    ELSE IF ~IsZero(o.EndDate) THEN <<YearOf(o.EndDate)>>
    ELSE <<now>>

isWithinDateRangeExclusive(date, o) ==
    IF IsZero(date) THEN TRUE
    ELSE IF ~IsZero(o.StartDate) /\ date <= o.StartDate THEN FALSE
    ELSE IF ~IsZero(o.EndDate) /\ date >= o.EndDate THEN FALSE
    ELSE TRUE

\* date.Before(StartDate) is date < StartDate, date.After(EndDate) is
\* date > EndDate.
isWithinDateRange(date, o) ==
    IF IsZero(date) THEN TRUE
    ELSE IF ~IsZero(o.StartDate) /\ date < o.StartDate THEN FALSE
    ELSE IF ~IsZero(o.EndDate) /\ date > o.EndDate THEN FALSE
    ELSE TRUE

\* The query of the list-page URL: startIndex is set only when positive.
buildOrderListURL(year, start) ==
    IF start > 0
    THEN [timeFilter |-> year, startIndex |-> start]
    ELSE [timeFilter |-> year]

\* The ways a page fetch fails: get returns the authentication error of a
\* 401 or 403, get returns another error of doRequest, or the parser
\* cannot read the body.
Failures == {"auth", "transport", "parse"}

AfterYearFailureBreak(i, n) == n + 1

\* continue: the loop over years goes on with the year after the failed one
AfterYearFailure(i, n) == i + 1

TruncateNone(summaries, m) == summaries

\* allSummaries[:opts.MaxOrders]
Truncate(summaries, m) == SubSeq(summaries, 1, m)

\* The Orders ParseOrderDetails reads off the detail page of summary s: it
\* never sets Date; the page shows no order number and no total, or the
\* order's number, a grand total and an item.
DetailPages(s) ==
    {[ID |-> <<>>, Date |-> 0, Total |-> 0, Items |-> 0],
     [ID |-> s.ID, Date |-> 0, Total |-> s.Total + 1, Items |-> 1]}

\* fetchOrderDetails: get and ParseOrderDetails, either of which may fail;
\* if order.ID == "" { order.ID = orderID }
fetchOrderDetails(orderID, out, page) ==
    IF out \in Failures
    THEN [err |-> out, order |-> NoOrder]
    ELSE [err |-> "nil",
          order |-> [page EXCEPT !.ID = IF @ = <<>> THEN orderID ELSE @]]

FallbackOrderUndated(s) == [ID |-> s.ID, Date |-> 0, Total |-> s.Total]

FallbackOrderTaxed(s) ==
    [ID |-> s.ID, Date |-> s.Date, Total |-> s.Total, Tax |-> 1]

\* A field of an Order: a field the composite literal or the parser did
\* not set holds the zero value of its type.
OrderField(o, f) == IF f \in DOMAIN o THEN o[f] ELSE 0

\* &Order{ID: summary.ID, Date: summary.Date, Total: summary.Total}
FallbackOrder(s) == [ID |-> s.ID, Date |-> s.Date, Total |-> s.Total]

NextStartIndexByOne(start) == start + 1

\* startIndex += pageSize
NextStartIndex(start) == start + pageSize

\* ------------------------------------------------- orchestrator: actions

histOrdVars == <<reqs, pageLens, base>>

\* FetchOrders calls fetchOrderSummaries, which determines the years;
\* determineYears reads the clock only past its return for Year > 0.
FetchOrders ==
    /\ opc = "start"
    /\ currentYear' \in IF opts.Year > 0 THEN {currentYear} ELSE 1..MaxYear
    /\ years' = determineYears(opts, currentYear')
    /\ yi' = 1
    /\ allSummaries' = <<>>
    /\ opc' = "year"
    /\ UNCHANGED <<opts, cancelled, yearSummaries, startIndex,
                   pattern, orders, oerr>>
    /\ UNCHANGED histOrdVars
    /\ UNCHANGED <<authSeen, gets, txVars>>
    /\ UNCHANGED <<transportVars, restVars>>

\* The head of the loop over years: the loop ends, or ctx is found done and
\* fetchOrderSummaries returns (allSummaries, ctx.Err()), on which
\* FetchOrders returns (nil, err), or fetchYearOrders starts on the year.
YearLoop ==
    /\ opc = "year"
    /\ IF yi > Len(years)
       THEN /\ opc' = "summaries"
            /\ UNCHANGED <<yearSummaries, startIndex, pattern, orders,
                           oerr, reqs, pageLens>>
       ELSE IF cancelled
       THEN /\ opc' = "done"
            /\ orders' = <<>>
            /\ oerr' = "canceled"
            /\ UNCHANGED <<yearSummaries, startIndex, pattern, reqs,
                           pageLens>>
       ELSE /\ opc' = "page"
            /\ yearSummaries' = <<>>
            /\ startIndex' = 0
            /\ pattern' \in DatePatterns(years[yi])
            /\ reqs' = <<>>
            /\ pageLens' = <<>>
            /\ UNCHANGED <<orders, oerr>>
    /\ UNCHANGED <<opts, currentYear, cancelled, years, yi, allSummaries,
                   base>>
    /\ UNCHANGED <<authSeen, gets, txVars>>
    /\ UNCHANGED <<transportVars, restVars>>

\* One round of the loop of fetchYearOrders: the page is requested; get or
\* ParseOrderList fails and the year is given up with what it had, which
\* fetchOrderSummaries drops on its way to the next year; or the page's
\* summaries are appended and the loop breaks or moves on one page.
FetchPage ==
    /\ opc = "page"
    /\ startIndex < MaxPages * pageSize
    /\ reqs' = Append(reqs, buildOrderListURL(years[yi], startIndex))
    /\ \E out \in {"ok"} \cup Failures, n \in PageLens :
        IF out \in Failures
        THEN /\ yi' = AfterYearFailure(yi, Len(years))
             /\ opc' = "year"
             /\ authSeen' = (authSeen \/ out = "auth")
             /\ UNCHANGED <<yearSummaries, startIndex, pageLens>>
        ELSE LET summaries == PageOf(years[yi], startIndex, n, pattern)
                 all == yearSummaries \o summaries
             IN /\ pageLens' = Append(pageLens, n)
                /\ IF Len(summaries) = 0
                   THEN /\ opc' = "filter"
                        /\ UNCHANGED <<yearSummaries, startIndex>>
                   ELSE /\ yearSummaries' = all
                        /\ IF \/ opts.MaxOrders > 0
                                 /\ Len(all) >= opts.MaxOrders
                              \/ Len(summaries) < pageSize
                           THEN /\ opc' = "filter"
                                /\ UNCHANGED startIndex
                           ELSE /\ startIndex' = NextStartIndex(startIndex)
                                /\ opc' = "page"
                /\ UNCHANGED <<yi, authSeen>>
    /\ UNCHANGED <<opts, currentYear, cancelled, years, allSummaries,
                   pattern, base, orders, oerr, gets, txVars>>
    /\ UNCHANGED <<transportVars, restVars>>

\* The filter loop over the year's summaries.
Filter ==
    /\ opc = "filter"
    /\ base' = allSummaries
    /\ allSummaries' = allSummaries \o
           SelectSeq(yearSummaries,
                     LAMBDA s : isWithinDateRange(s.Date, opts))
    /\ opc' = "limit"
    /\ UNCHANGED <<opts, currentYear, cancelled, years, yi, yearSummaries,
                   startIndex, pattern, reqs, pageLens, orders, oerr>>
    /\ UNCHANGED <<authSeen, gets, txVars>>
    /\ UNCHANGED <<transportVars, restVars>>

\* The check after the filter loop: enough orders, cut and break, or on to
\* the next year.
CheckLimit ==
    /\ opc = "limit"
    /\ IF opts.MaxOrders > 0 /\ Len(allSummaries) >= opts.MaxOrders
       THEN /\ allSummaries' = Truncate(allSummaries, opts.MaxOrders)
            /\ opc' = "summaries"
            /\ UNCHANGED yi
       ELSE /\ yi' = yi + 1
            /\ opc' = "year"
            /\ UNCHANGED allSummaries
    /\ UNCHANGED <<opts, currentYear, cancelled, years, yearSummaries,
                   startIndex, pattern, orders, oerr>>
    /\ UNCHANGED histOrdVars
    /\ UNCHANGED <<authSeen, gets, txVars>>
    /\ UNCHANGED <<transportVars, restVars>>

\* fetchOrderSummaries returned (allSummaries, nil); details are not asked
\* for and each summary becomes an Order of its ID, Date and Total.
ReturnOrders ==
    /\ opc = "summaries"
    /\ ~opts.IncludeDetails
    /\ orders' = [i \in 1..Len(allSummaries) |->
                     [ID    |-> allSummaries[i].ID,
                      Date  |-> allSummaries[i].Date,
                      Total |-> allSummaries[i].Total]]
    /\ oerr' = "nil"
    /\ opc' = "done"
    /\ UNCHANGED <<opts, currentYear, cancelled, years, yi, allSummaries,
                   yearSummaries, startIndex, pattern>>
    /\ UNCHANGED histOrdVars
    /\ UNCHANGED <<authSeen, gets, txVars>>
    /\ UNCHANGED <<transportVars, restVars>>

\* fetchOrderSummaries returned (allSummaries, nil) and details are asked
\* for: one round of the loop over the summaries, or its end.  The round
\* finds ctx done and returns (orders, ctx.Err()), or fetches the details
\* of the summary and appends the order, its zero Date filled from the
\* summary, or the summary's data when the fetch or the parse failed.
ExpandDetails ==
    /\ opc = "summaries"
    /\ opts.IncludeDetails
    /\ IF Len(orders) = Len(allSummaries)
       THEN /\ opc' = "done"
            /\ oerr' = "nil"
            /\ UNCHANGED <<orders, gets, authSeen>>
       ELSE IF cancelled
       THEN /\ opc' = "done"
            /\ oerr' = "canceled"
            /\ UNCHANGED <<orders, gets, authSeen>>
       ELSE LET summary == allSummaries[Len(orders) + 1]
            IN \E out \in {"ok"} \cup Failures,
                  page \in DetailPages(summary) :
                 LET r == fetchOrderDetails(summary.ID, out, page)
                 IN /\ gets' = Append(gets, [kind |-> "details",
                                             id |-> summary.ID,
                                             out |-> out])
                    /\ authSeen' = (authSeen \/ out = "auth")
                    /\ orders' = Append(orders,
                           IF r.err # "nil"
                           THEN FallbackOrder(summary)
                           ELSE IF IsZero(r.order.Date)
                           THEN [r.order EXCEPT !.Date = summary.Date]
                           ELSE r.order)
                    /\ UNCHANGED <<opc, oerr>>
    /\ UNCHANGED <<opts, currentYear, cancelled, years, yi, allSummaries,
                   yearSummaries, startIndex, pattern, txVars>>
    /\ UNCHANGED histOrdVars
    /\ UNCHANGED <<transportVars, restVars>>

\* The caller cancels ctx.
Cancel ==
    /\ opc \notin {"off", "done"}
    /\ ~cancelled
    /\ cancelled' = TRUE
    /\ UNCHANGED <<opts, currentYear, opc, years, yi, allSummaries,
                   yearSummaries, startIndex, pattern, orders, oerr>>
    /\ UNCHANGED histOrdVars
    /\ UNCHANGED <<authSeen, gets, txVars>>
    /\ UNCHANGED <<transportVars, restVars>>

NextOrders ==
    \/ FetchOrders
    \/ YearLoop
    \/ FetchPage
    \/ Filter
    \/ CheckLimit
    \/ ReturnOrders
    \/ ExpandDetails
    \/ Cancel

\* One FetchOrders call, on a Client of the default
\* configuration whose transport is at rest: what get returns is a choice
\* of FetchPage.
InitOrders ==
    /\ InitClient
    /\ rateLimit = defaultRateLimit
    /\ maxRetries = defaultMaxRetries
    /\ autoSave = TRUE
    /\ callsLeft = [p \in Procs |-> 0]
    /\ opts \in [StartDate : OptionDates, EndDate : OptionDates,
                 Year : 0..MaxYear,
                 MaxOrders : MaxOrdersCfg, IncludeDetails : BOOLEAN]
    /\ opts.IncludeDetails => opts.MaxOrders \in DetailedMaxOrders
    /\ currentYear = 0
    /\ cancelled = FALSE
    /\ opc = "start"
    /\ years = <<>>
    /\ yi = 0
    /\ allSummaries = <<>>
    /\ yearSummaries = <<>>
    /\ startIndex = 0
    /\ pattern = <<>>
    /\ reqs = <<>>
    /\ pageLens = <<>>
    /\ base = <<>>
    /\ orders = <<>>
    /\ oerr = "nil"
    /\ authSeen = FALSE
    /\ gets = <<>>
    /\ NoTx
    /\ NoParse
    /\ NoStore

SpecOrders == InitOrders /\ [][NextOrders]_vars

\* ------------------------------- single orders and their transactions

\* The order identifiers the operations are called with, written as the
\* identifiers of summaries are.
KnownIDs == {<<1, 1>>, <<1, 2>>}

RECURSIVE SeqsUpTo(_, _)
SeqsUpTo(S, n) ==
    IF n = 0 THEN {<<>>}
    ELSE LET shorter == SeqsUpTo(S, n - 1)
         IN shorter \cup {Append(q, x) : q \in shorter, x \in S}

\* ------------------------------------------------------------ parser: pages

\* An order number of the wrong shape (a digital order's "D01-..."): the
\* patterns \d{3}-\d{7}-\d{7} do not match it.
Malformed == <<0>>

\* No a[href*='order-details'] in the card.
NoLink == [exists |-> FALSE, orderID |-> <<>>]

\* The href of a link, by its orderID parameter (<<>>: it has none).
Hrefs == {[exists |-> TRUE, orderID |-> x] :
             x \in {<<>>, Malformed, <<1, 1>>}}

\* The text of an .order-header__header-list-item, by what the parser asks
\* of it: whether it contains a month name, and the date parseAmazonDate
\* reads off it (0: it is in none of the formats).  "Ship to" has neither,
\* "2024-01-15" a date and no month name, "Marketplace" a month name and no
\* date.
Fragments == [month : BOOLEAN, date : {0}]
                 \cup [month : BOOLEAN, date : {1}]
                 \cup [month : {TRUE}, date : {2}]

\* The order cards of a list page: the detail link, the text of the
\* .yohtmlc-order-id region and the items of the header list.
Cards == [link : {NoLink} \cup Hrefs, idText : {<<>>, Malformed, <<1, 2>>},
          header : {<<>>, <<[month |-> TRUE, date |-> 1]>>}]

\* The texts of price and quantity regions, token by token.
Numerals == {"0", "2", "3", "5", "7"}

ValueOf(t) ==
    CASE t = "0" -> 0 [] t = "2" -> 2 [] t = "3" -> 3 [] t = "5" -> 5
      [] t = "7" -> 7

PriceTexts == {<<>>, <<"$", "5">>, <<"USD", "7">>}

QtyTexts == {<<"qty:", "2">>, <<"0">>, <<"3", "x">>}

\* The ASINs of the a[href*='/dp/'] links of the shipment sections ("": the
\* href holds no /dp/XXXXXXXXXX).
LinkASINs == {"", "B000000001", "B000000002", "B000000003"}

\* A detail page: the product links of its shipment sections, its
\* unitPrice regions and its quantity regions, each in document order.
DetailDocs ==
    [links : SeqsUpTo(LinkASINs, MaxLinks),
     prices : SeqsUpTo(PriceTexts, MaxPrices),
     qtys : SeqsUpTo(QtyTexts, MaxQtys)]

\* The nodes of a transactions page that ParseTransactions selects: status
\* headers, date containers (date 0: a text parseAmazonDate fails on) and
\* line items with their payment method, amount and order links.  They
\* are siblings, in document order.
Node(kind, text, date, method, amount, links) ==
    [kind |-> kind, text |-> text, date |-> date, method |-> method,
     amount |-> amount, links |-> links]

HeaderNodes == {Node("header", t, 0, "", <<>>, <<>>) :
                   t \in {"", "Completed", "Pending"}}

DateNodes == {Node("date", "", d, "", <<>>, <<>>) : d \in 0..2}

LineItems ==
    {Node("item", "", 0, "", <<>>, <<>>),
     Node("item", "", 0, "Visa ****1211", <<>>, <<>>),
     Node("item", "", 0, "Visa ****1211", <<"-", "$", "5">>, <<>>),
     Node("item", "", 0, "Visa ****1211", <<"-", "$", "5">>,
          <<[exists |-> TRUE, orderID |-> <<1, 1>>]>>),
     Node("item", "", 0, "", <<"-", "$", "7">>,
          <<[exists |-> TRUE, orderID |-> <<1, 1>>],
            [exists |-> TRUE, orderID |-> <<1, 2>>]>>)}

\* The "Transactions from Order" sections parseTransactionsAlternative
\* looks for: the order number of the heading, the status and date of the
\* container and the amounts next to its card patterns.
AltSections ==
    {<<>>,
     <<[orderID |-> <<1, 2>>, status |-> "Completed", date |-> 1,
        amounts |-> <<<<"-", "$", "3">>, <<>>>>]>>}

TxDocs == [nodes : SeqsUpTo(HeaderNodes \cup DateNodes \cup LineItems,
                            MaxNodes),
           sections : AltSections]

\* -------------------------------------------------------- parser: functions

\* extractOrderIDFromURL: the match of orderID=(\d{3}-\d{7}-\d{7}), or ""
extractOrderIDFromURL(href) ==
    IF href.orderID \in KnownIDs THEN href.orderID ELSE <<>>

\* extractOrderIDFromText: the match of (\d{3}-\d{7}-\d{7}), or ""
extractOrderIDFromText(text) ==
    IF text \in KnownIDs THEN text ELSE <<>>

\* containsMonth(text)
containsMonth(text) == text.month

\* parseAmazonDate(text)
parseAmazonDate(text) ==
    IF text.date # 0 THEN [date |-> text.date, err |-> "nil"]
    ELSE [date |-> 0, err |-> "unable to parse date"]

\* parseOrderCard, its loop over the items of the header list:
\*   if containsMonth(text) {
\*       if date, err := parseAmazonDate(text); err == nil {
\*           order.Date = date } }
RECURSIVE HeaderDate(_, _)
HeaderDate(header, n) ==
    IF n = 0 THEN 0
    ELSE LET before == HeaderDate(header, n - 1)
             text == header[n]
         IN IF containsMonth(text) /\ parseAmazonDate(text).err = "nil"
            THEN parseAmazonDate(text).date
            ELSE before

\* parseOrderCard: the identifier from the detail link, else from the
\* identifier region, the date from the header list; it returns order, nil
\* whatever it found.
parseOrderCard(card) ==
    LET fromLink == IF card.link.exists
                    THEN extractOrderIDFromURL(card.link)
                    ELSE <<>>
        id == IF fromLink # <<>>
              THEN fromLink
              ELSE extractOrderIDFromText(card.idText)
    IN [order |-> [ID |-> id, HasDetailURL |-> card.link.exists,
                   Date |-> HeaderDate(card.header, Len(card.header))],
        err |-> "nil"]

\* ParseOrderList: doc.Find(".order-card").Each: a card whose
\* parseOrderCard returns an error is left out
RECURSIVE ParseOrderList(_)
ParseOrderList(cards) ==
    IF cards = <<>> THEN <<>>
    ELSE LET n == Len(cards)
             before == ParseOrderList(SubSeq(cards, 1, n - 1))
             r == parseOrderCard(cards[n])
         IN IF r.err # "nil" THEN before ELSE Append(before, r.order)

\* parsePrice: "$", "USD" and "," are removed, the first number is the
\* price, 0 without one
parsePrice(text) ==
    LET cleaned == SelectSeq(text, LAMBDA t : t \notin {"$", "USD", ","})
        at == {i \in DOMAIN cleaned : cleaned[i] \in Numerals}
    IN IF at = {} THEN 0
       ELSE ValueOf(cleaned[CHOOSE i \in at : \A j \in at : i <= j])

\* parseQuantity: the patterns qty[:\s]*(\d+), x(\d+), (\d+)x and ^(\d+)$
\* in this order, the first that yields a number > 0; 1 by default
parseQuantity(text) ==
    LET n == Len(text)
        After(w) == {i \in 1..(n - 1) :
                        text[i] = w /\ text[i + 1] \in Numerals}
        Before(w) == {i \in 1..(n - 1) :
                         text[i] \in Numerals /\ text[i + 1] = w}
        First(S) == CHOOSE i \in S : \A j \in S : i <= j
        qty == IF After("qty:") = {} THEN 0
               ELSE ValueOf(text[First(After("qty:")) + 1])
        xn == IF After("x") = {} THEN 0
              ELSE ValueOf(text[First(After("x")) + 1])
        nx == IF Before("x") = {} THEN 0
              ELSE ValueOf(text[First(Before("x"))])
        sole == IF n = 1 /\ text[1] \in Numerals THEN ValueOf(text[1])
                ELSE 0
    IN IF qty > 0 THEN qty
       ELSE IF xn > 0 THEN xn
       ELSE IF nx > 0 THEN nx
       ELSE IF sole > 0 THEN sole
       ELSE 1

\* parseShipmentItems, the links: one item per ASIN, at its first link; a
\* link without an ASIN or with an ASIN already seen adds none
RECURSIVE ShipmentItemsPerLink(_)
ShipmentItemsPerLink(links) ==
    IF links = <<>> THEN <<>>
    ELSE LET n == Len(links)
             before == ShipmentItemsPerLink(SubSeq(links, 1, n - 1))
         IN IF links[n] = "" THEN before
            ELSE Append(before, [ASIN |-> links[n], UnitPrice |-> 0,
                                 Price |-> 0, Quantity |-> 0])

RECURSIVE ShipmentItems(_)
ShipmentItems(links) ==
    IF links = <<>> THEN <<>>
    ELSE LET n == Len(links)
             before == ShipmentItems(SubSeq(links, 1, n - 1))
             asin == links[n]
         IN IF asin = "" \/ \E k \in DOMAIN before : before[k].ASIN = asin
            THEN before
            ELSE Append(before, [ASIN |-> asin, UnitPrice |-> 0,
                                 Price |-> 0, Quantity |-> 0])

ItemOfNext(i) == i + 1

\* Associate price with item by index: region i goes to order.Items[i]
ItemOf(i) == i

LineTotalUnit(unit, qty) == unit

\* order.Items[i].Price = order.Items[i].UnitPrice * qty
LineTotal(unit, qty) == unit * qty

\* parseShipmentItems, the unitPrice regions from region i on:
\*   if i < len(order.Items) { UnitPrice = price; Price = price;
\*       if Quantity == 0 { Quantity = 1 } }
RECURSIVE PriceLoop(_, _, _)
PriceLoop(items, prices, i) ==
    IF i > Len(prices) THEN items
    ELSE LET k == ItemOf(i)
             price == parsePrice(prices[i])
         IN PriceLoop(IF k <= Len(items)
                      THEN [items EXCEPT
                              ![k] = [@ EXCEPT
                                        !.UnitPrice = price,
                                        !.Price = price,
                                        !.Quantity = IF @ = 0 THEN 1 ELSE @]]
                      ELSE items,
                      prices, i + 1)

\* parseShipmentItems, the quantity regions from region i on:
\*   if qty > 0 && i < len(order.Items) { Quantity = qty;
\*       Price = UnitPrice * qty }
RECURSIVE QuantityLoop(_, _, _)
QuantityLoop(items, qtys, i) ==
    IF i > Len(qtys) THEN items
    ELSE LET qty == parseQuantity(qtys[i])
         IN QuantityLoop(IF qty > 0 /\ i <= Len(items)
                         THEN [items EXCEPT
                                 ![i] = [@ EXCEPT
                                           !.Quantity = qty,
                                           !.Price =
                                               LineTotal(items[i].UnitPrice,
                                                         qty)]]
                         ELSE items,
                         qtys, i + 1)

\* parseShipmentItems, its last loop:
\*   if item.Quantity == 0 { Quantity = 1; Price = UnitPrice }
DefaultQuantity(items) ==
    [i \in DOMAIN items |->
        IF items[i].Quantity = 0
        THEN [items[i] EXCEPT !.Quantity = 1, !.Price = items[i].UnitPrice]
        ELSE items[i]]

parseShipmentItems(doc) ==
    DefaultQuantity(
        QuantityLoop(PriceLoop(ShipmentItems(doc.links), doc.prices, 1),
                     doc.qtys, 1))

\* ParseOrderDetails, as far as the items go: order.Items is what
\* parseShipmentItems leaves.
ParseOrderDetails(doc) == [Items |-> parseShipmentItems(doc)]

\* ParseTransactions, its first loop: over all the status headers of the
\* page, currentStatus = statusText unless that is empty
currentStatus(nodes) ==
    LET at == {i \in DOMAIN nodes :
                  nodes[i].kind = "header" /\ nodes[i].text # ""}
    IN IF at = {} THEN ""
       ELSE nodes[CHOOSE i \in at : \A j \in at : j <= i].text

\* ParseTransactions, its second loop: over all the date containers of the
\* page, currentDate = date unless parseAmazonDate fails
currentDate(nodes) ==
    LET at == {i \in DOMAIN nodes :
                  nodes[i].kind = "date" /\ nodes[i].date # 0}
    IN IF at = {} THEN 0
       ELSE nodes[CHOOSE i \in at : \A j \in at : j <= i].date

\* lineItem.PrevAll().Each: the siblings before the line item, the
\* nearest first; every date container among them that parses sets
\* tx.Date, so the one farthest back is the one that stays
DateOf(nodes, j) ==
    LET at == {i \in 1..(j - 1) :
                  nodes[i].kind = "date" /\ nodes[i].date # 0}
    IN IF at = {} THEN currentDate(nodes)
       ELSE nodes[CHOOSE i \in at : \A k \in at : i <= k].date

\* row.Find("a[href*='orderID=']").Each:
\*   tx.OrderID = extractOrderIDFromURL(href), once per link
OrderIDOf(links) ==
    IF links = <<>> THEN <<>>
    ELSE extractOrderIDFromURL(links[Len(links)])

\* The Transaction ParseTransactions builds for the line item at j.
TransactionAt(nodes, j) ==
    [OrderID |-> OrderIDOf(nodes[j].links),
     Date |-> DateOf(nodes, j),
     Amount |-> parsePrice(SelectSeq(nodes[j].amount,
                                     LAMBDA t : t # "-")),
     PaymentMethod |-> nodes[j].method,
     Status |-> currentStatus(nodes)]

RECURSIVE LineItemLoopAll(_, _)
LineItemLoopAll(nodes, n) ==
    IF n = 0 THEN <<>>
    ELSE LET before == LineItemLoopAll(nodes, n - 1)
         IN IF nodes[n].kind = "item"
            THEN Append(before, TransactionAt(nodes, n))
            ELSE before

\* ParseTransactions, its third loop, over the first n nodes: a line item
\* is added if tx.Amount > 0 || tx.PaymentMethod != ""
RECURSIVE LineItemLoop(_, _)
LineItemLoop(nodes, n) ==
    IF n = 0 THEN <<>>
    ELSE LET before == LineItemLoop(nodes, n - 1)
             tx == TransactionAt(nodes, n)
         IN IF nodes[n].kind = "item"
               /\ (tx.Amount > 0 \/ tx.PaymentMethod # "")
            THEN Append(before, tx)
            ELSE before

\* parseTransactionsAlternative: per section, one transaction per card
\* pattern whose amount is > 0, under the order number of the heading
RECURSIVE parseTransactionsAlternative(_)
parseTransactionsAlternative(sections) ==
    IF sections = <<>> THEN <<>>
    ELSE LET n == Len(sections)
             s == sections[n]
             txs == [i \in DOMAIN s.amounts |->
                       [OrderID |-> extractOrderIDFromText(s.orderID),
                        Date |-> s.date,
                        Amount |-> parsePrice(SelectSeq(s.amounts[i],
                                                  LAMBDA t : t # "-")),
                        PaymentMethod |-> "Visa ****1211",
                        Status |-> s.status]]
         IN parseTransactionsAlternative(SubSeq(sections, 1, n - 1))
              \o SelectSeq(txs, LAMBDA tx : tx.Amount > 0)

ParseTransactionsBoth(doc) ==
    LineItemLoop(doc.nodes, Len(doc.nodes))
        \o parseTransactionsAlternative(doc.sections)

\* ParseTransactions: the line items, or, when they gave nothing, the
\* alternative
ParseTransactions(doc) ==
    LET txs == LineItemLoop(doc.nodes, Len(doc.nodes))
    IN IF Len(txs) = 0 THEN parseTransactionsAlternative(doc.sections)
       ELSE txs

\* ------------------------------------------- transactions: pages fetched

\* The transactions pages the server answers a get with: one without
\* transactions, one with a charge that shows no order number and a charge
\* of order <<1, 1>>, one with two charges of order <<1, 1>>, and one
\* that only the alternative parse reads, with a charge under the heading
\* of order <<1, 2>>.
FetchedTxDocs ==
    LET unlinked == Node("item", "", 0, "Visa ****1211", <<"-", "$", "5">>,
                         <<>>)
        linked == Node("item", "", 0, "Visa ****1211", <<"-", "$", "5">>,
                       <<[exists |-> TRUE, orderID |-> <<1, 1>>]>>)
    IN {[nodes |-> <<>>, sections |-> <<>>],
        [nodes |-> <<unlinked, linked>>, sections |-> <<>>],
        [nodes |-> <<linked, linked>>, sections |-> <<>>],
        [nodes |-> <<>>,
         sections |-> <<[orderID |-> <<1, 2>>, status |-> "Completed",
                         date |-> 1,
                         amounts |-> <<<<"-", "$", "3">>, <<>>>>]>>]}

\* What ParseTransactions reads off them.
TxPages == {ParseTransactions(d) : d \in FetchedTxDocs}

fetchTransactionsUnfilled(orderID, out, page) ==
    IF out \in Failures
    THEN [err |-> out, txs |-> <<>>]
    ELSE [err |-> "nil", txs |-> page]

\* FetchTransactions: get and ParseTransactions, either of which may fail;
\* if tx.OrderID == "" { tx.OrderID = orderID }
fetchTransactions(orderID, out, page) ==
    IF out \in Failures
    THEN [err |-> out, txs |-> <<>>]
    ELSE [err |-> "nil",
          txs |-> [i \in DOMAIN page |->
                      IF page[i].OrderID = <<>>
                      THEN [page[i] EXCEPT !.OrderID = orderID]
                      ELSE page[i]]]

AfterTransactionsFailing(e) == e

\* FetchOrderWithTransactions after FetchTransactions: return order, nil,
\* nil on its error, return order, transactions, nil without
AfterTransactions(e) == "nil"

HoldsFailed(e) == TRUE

\* result[orderID] = transactions is reached only past `continue`
Holds(e) == e = "nil"

\* What fetchOrderDetails may find on the detail page of order orderID.
DetailPagesOf(orderID) == DetailPages([ID |-> orderID, Total |-> 0])

fetchFrame == <<opts, currentYear, cancelled, years, yi, allSummaries,
                yearSummaries, startIndex, pattern, orders>>

\* FetchOrder(ctx, orderID)
FetchOrder ==
    /\ opc = "FetchOrder"
    /\ \E out \in {"ok"} \cup Failures, page \in DetailPagesOf(orderIDs[1]) :
         LET r == fetchOrderDetails(orderIDs[1], out, page)
         IN /\ gets' = Append(gets, [kind |-> "details",
                                     id |-> orderIDs[1], out |-> out])
            /\ authSeen' = (authSeen \/ out = "auth")
            /\ retOrder' = r.order
            /\ oerr' = r.err
    /\ opc' = "done"
    /\ UNCHANGED <<orderIDs, ti, txResult, retTxs>>
    /\ UNCHANGED fetchFrame
    /\ UNCHANGED histOrdVars
    /\ UNCHANGED <<transportVars, restVars>>

\* FetchTransactions(ctx, orderID)
FetchTransactions ==
    /\ opc = "FetchTransactions"
    /\ \E out \in {"ok"} \cup Failures, d \in FetchedTxDocs :
         LET r == fetchTransactions(orderIDs[1], out,
                                    ParseTransactions(d))
         IN /\ gets' = Append(gets, [kind |-> "transactions",
                                     id |-> orderIDs[1], out |-> out])
            /\ authSeen' = (authSeen \/ out = "auth")
            /\ input' = IF out = "ok" THEN d ELSE input
            /\ retTxs' = r.txs
            /\ oerr' = r.err
    /\ opc' = "done"
    /\ UNCHANGED <<orderIDs, ti, txResult, retOrder>>
    /\ UNCHANGED fetchFrame
    /\ UNCHANGED histOrdVars
    /\ UNCHANGED <<transportVars, fn, output, storeVars>>

\* FetchOrderWithTransactions(ctx, orderID), up to its first return: the
\* details are fetched, and their failure is returned as the error.
FetchOrderWithTransactions ==
    /\ opc = "FetchOrderWithTransactions"
    /\ \E out \in {"ok"} \cup Failures, page \in DetailPagesOf(orderIDs[1]) :
         LET r == fetchOrderDetails(orderIDs[1], out, page)
         IN /\ gets' = Append(gets, [kind |-> "details",
                                     id |-> orderIDs[1], out |-> out])
            /\ authSeen' = (authSeen \/ out = "auth")
            /\ retOrder' = r.order
            /\ IF r.err # "nil"
               THEN /\ oerr' = r.err
                    /\ opc' = "done"
               ELSE /\ oerr' = "nil"
                    /\ opc' = "WithTransactions"
    /\ UNCHANGED <<orderIDs, ti, txResult, retTxs>>
    /\ UNCHANGED fetchFrame
    /\ UNCHANGED histOrdVars
    /\ UNCHANGED <<transportVars, restVars>>

\* The rest of FetchOrderWithTransactions: the transactions are fetched;
\* when that fails the order is returned without them and without error.
WithTransactions ==
    /\ opc = "WithTransactions"
    /\ \E out \in {"ok"} \cup Failures, d \in FetchedTxDocs :
         LET r == fetchTransactions(orderIDs[1], out,
                                    ParseTransactions(d))
         IN /\ gets' = Append(gets, [kind |-> "transactions",
                                     id |-> orderIDs[1], out |-> out])
            /\ authSeen' = (authSeen \/ out = "auth")
            /\ input' = IF out = "ok" THEN d ELSE input
            /\ retTxs' = IF r.err # "nil" THEN <<>> ELSE r.txs
            /\ oerr' = AfterTransactions(r.err)
    /\ opc' = "done"
    /\ UNCHANGED <<orderIDs, ti, txResult, retOrder>>
    /\ UNCHANGED fetchFrame
    /\ UNCHANGED histOrdVars
    /\ UNCHANGED <<transportVars, fn, output, storeVars>>

\* FetchAllTransactions(ctx, orderIDs): one round of its loop, or its end.
\* The round finds ctx done and returns (result, ctx.Err()), or fetches the
\* transactions of the identifier and stores them unless the fetch failed.
FetchAllTransactions ==
    /\ opc = "FetchAllTransactions"
    /\ IF ti > Len(orderIDs)
       THEN /\ opc' = "done"
            /\ oerr' = "nil"
            /\ UNCHANGED <<ti, txResult, gets, authSeen, input>>
       ELSE IF cancelled
       THEN /\ opc' = "done"
            /\ oerr' = "canceled"
            /\ UNCHANGED <<ti, txResult, gets, authSeen, input>>
       ELSE \E out \in {"ok"} \cup Failures, d \in FetchedTxDocs :
              LET orderID == orderIDs[ti]
                  r == fetchTransactions(orderID, out,
                                         ParseTransactions(d))
              IN /\ gets' = Append(gets, [kind |-> "transactions",
                                          id |-> orderID, out |-> out])
                 /\ authSeen' = (authSeen \/ out = "auth")
                 /\ input' = IF out = "ok" THEN d ELSE input
                 /\ txResult' =
                        IF Holds(r.err)
                        THEN [id \in DOMAIN txResult \cup {orderID} |->
                                 IF id = orderID THEN r.txs ELSE txResult[id]]
                        ELSE txResult
                 /\ ti' = ti + 1
                 /\ UNCHANGED <<opc, oerr>>
    /\ UNCHANGED <<orderIDs, retOrder, retTxs>>
    /\ UNCHANGED fetchFrame
    /\ UNCHANGED histOrdVars
    /\ UNCHANGED <<transportVars, fn, output, storeVars>>

\* ------------------------------------------------------------- health check

\* The names the comment of HasEssentialCookies lists as the minimum.
CoreCookies == {"session-id", "session-token", "ubid-main", "at-main"}

\* The cookies NewCookieStore found in the cookie file: any set of the
\* essential names for a HealthCheck, none or the four of the minimum for
\* the other operations.
LoadedStores(op) ==
    IF op = "HealthCheck"
    THEN {StoreOf(S) :
             S \in SUBSET {EssentialCookies[i] : i \in DOMAIN EssentialCookies}}
    ELSE {EmptyStore, StoreOf(CoreCookies)}

\* What c.get(ordersURL) and io.ReadAll(resp.Body) come back with: an
\* error of get (authentication failure, transport failure), or a
\* response with its status and whether its body could be read.
HealthGets ==
    {[out |-> o, status |-> 0, read |-> FALSE] :
        o \in {"auth", "transport"}}
    \cup {[out |-> "ok", status |-> st, read |-> r] :
             st \in {StatusOK, 500, StatusTooManyRequests}, r \in BOOLEAN}

\* Which of the strings HealthCheck looks for the body contains.
Bodies == SUBSET {"ap_email", "ap_password", "order-card"}

isLoginPageAnyMarker(body) == "ap_email" \in body \/ "ap_password" \in body

\* isLoginPage := (Contains(ap_email) || Contains(ap_password))
\*                   && !Contains(order-card)
isLoginPage(body) ==
    ("ap_email" \in body \/ "ap_password" \in body)
        /\ "order-card" \notin body

\* What HealthCheck returns after c.get came back with g and body.
HealthResult(g, body) ==
    IF g.out # "ok" THEN g.out
    ELSE IF g.status # StatusOK THEN "status"
    ELSE IF ~g.read THEN "read"
    ELSE IF isLoginPage(body) THEN "expired"
    ELSE "nil"

\* HealthCheck(): without the essential cookies it returns an error and
\* fetches nothing; otherwise it gets the order-list page once and
\* classifies the response.
HealthCheck ==
    /\ opc = "HealthCheck"
    /\ IF ~HasEssentialCookies(cookies)
       THEN /\ oerr' = "missing"
            /\ UNCHANGED <<gets, authSeen, input>>
       ELSE \E g \in HealthGets, body \in Bodies :
              /\ gets' = Append(gets, [kind |-> "orders", id |-> <<>>,
                                       out |-> g.out, status |-> g.status,
                                       read |-> g.read])
              /\ authSeen' = (authSeen \/ g.out = "auth")
              /\ input' = IF g.out = "ok" THEN body ELSE input
              /\ oerr' = HealthResult(g, body)
    /\ opc' = "done"
    /\ UNCHANGED <<orderIDs, ti, txResult, retOrder, retTxs>>
    /\ UNCHANGED fetchFrame
    /\ UNCHANGED histOrdVars
    /\ UNCHANGED <<transportVars, fn, output, storeVars>>

NextTx ==
    \/ FetchOrder
    \/ FetchTransactions
    \/ FetchOrderWithTransactions
    \/ WithTransactions
    \/ FetchAllTransactions
    \/ HealthCheck
    \/ Cancel

\* One call of FetchOrder, FetchTransactions, FetchOrderWithTransactions,
\* FetchAllTransactions or HealthCheck, on a Client of the default
\* configuration whose transport is at rest: what get returns is a choice
\* of the actions.
InitTx ==
    /\ opc \in {"FetchOrder", "FetchTransactions",
                "FetchOrderWithTransactions", "FetchAllTransactions",
                "HealthCheck"}
    /\ \E store \in LoadedStores(opc) : ClientWith(store)
    /\ rateLimit = defaultRateLimit
    /\ maxRetries = defaultMaxRetries
    /\ autoSave = TRUE
    /\ callsLeft = [p \in Procs |-> 0]
    /\ opts = [StartDate |-> 0, EndDate |-> 0, Year |-> 0, MaxOrders |-> 0,
               IncludeDetails |-> FALSE]
    /\ currentYear = 0
    /\ cancelled = FALSE
    /\ orderIDs \in SeqsUpTo(KnownIDs, MaxIDs)
    /\ opc = "HealthCheck" => orderIDs = <<>>
    /\ opc \notin {"FetchAllTransactions", "HealthCheck"}
           => Len(orderIDs) = 1
    /\ years = <<>>
    /\ yi = 0
    /\ allSummaries = <<>>
    /\ yearSummaries = <<>>
    /\ startIndex = 0
    /\ pattern = <<>>
    /\ reqs = <<>>
    /\ pageLens = <<>>
    /\ base = <<>>
    /\ orders = <<>>
    /\ oerr = "nil"
    /\ authSeen = FALSE
    /\ gets = <<>>
    /\ ti = IF opc = "HealthCheck" THEN 0 ELSE 1
    /\ txResult = <<>>
    /\ retOrder = NoOrder
    /\ retTxs = <<>>
    /\ NoParse
    /\ NoStore

SpecTx == InitTx /\ [][NextTx]_vars

\* ---------------------------------------------------------- parser: actions

\* The transport and the orchestrator at rest.
ClientIdle ==
    /\ InitClient
    /\ rateLimit = defaultRateLimit
    /\ maxRetries = defaultMaxRetries
    /\ autoSave = TRUE
    /\ callsLeft = [p \in Procs |-> 0]
    /\ NoFetch

\* parser.ParseOrderList(r) on a list page
ParseOrderListCall ==
    /\ fn = "ParseOrderList"
    /\ ~output.done
    /\ output' = Returned(ParseOrderList(input))
    /\ UNCHANGED <<fn, input, storeVars, transportVars, ordVars>>

\* parser.ParseOrderDetails(r) on a detail page
ParseOrderDetailsCall ==
    /\ fn = "ParseOrderDetails"
    /\ ~output.done
    /\ output' = Returned(ParseOrderDetails(input))
    /\ UNCHANGED <<fn, input, storeVars, transportVars, ordVars>>

\* parser.ParseTransactions(r) on a transactions page
ParseTransactionsCall ==
    /\ fn = "ParseTransactions"
    /\ ~output.done
    /\ output' = Returned(ParseTransactions(input))
    /\ UNCHANGED <<fn, input, storeVars, transportVars, ordVars>>

NextParse ==
    \/ ParseOrderListCall
    \/ ParseOrderDetailsCall
    \/ ParseTransactionsCall

\* The list pages of one order card with up to MaxFragments items in its
\* header list.
HeaderPages ==
    {<<[link |-> [exists |-> TRUE, orderID |-> <<1, 1>>], idText |-> <<>>,
        header |-> h]>> : h \in SeqsUpTo(Fragments, MaxFragments)}

\* One call of a Parser method on one page.
InitParse ==
    /\ ClientIdle
    /\ NoStore
    /\ fn \in {"ParseOrderList", "ParseOrderDetails", "ParseTransactions"}
    /\ input \in CASE fn = "ParseOrderList" ->
                            SeqsUpTo(Cards, MaxCards) \cup HeaderPages
                   [] fn = "ParseOrderDetails" -> DetailDocs
                   [] fn = "ParseTransactions" -> TxDocs
    /\ output = NotYet

SpecParse == InitParse /\ [][NextParse]_vars

\* ------------------------------------------------- cookie store: its file

\* A cookie file json.Unmarshal fails on (a write that broke off).
Corrupt == [kind |-> "corrupt", cookies |-> <<>>]

\* The cookies a caller hands to Set.
SetCookies == [name : {"session-id", "session-token", "test-cookie"},
               value : {"a", "b"}]

\* The cookie files NewCookieStore may find at its path.
FoundFiles ==
    {NoFile, Corrupt,
     [kind |-> "json",
      cookies |-> <<[name |-> "session-id", value |-> "a"]>>],
     [kind |-> "json",
      cookies |-> <<[name |-> "session-token", value |-> "b"],
                    [name |-> "test-cookie", value |-> "a"]>>]}

\* The cookies of a store.
Entries(store) ==
    {[name |-> n, value |-> store[n]] :
        n \in {m \in CookieNames : store[m] # Absent}}

\* The orders `for _, c := range s.cookies` may take.
RECURSIVE Orders(_)
Orders(S) ==
    IF S = {} THEN {<<>>}
    ELSE UNION {{<<x>> \o q : q \in Orders(S \ {x})} : x \in S}

\* Save: the CookieFile it marshals, the cookies in the order of the range
\* over the map.
CookieFilesOf(store) ==
    {[kind |-> "json", cookies |-> q] : q \in Orders(Entries(store))}

\* Load: s.cookies[c.Name] = c for the first n cookies of the file
RECURSIVE Load(_, _)
Load(list, n) ==
    IF n = 0 THEN EmptyStore
    ELSE StoreSet(Load(list, n - 1), list[n])

transportButCookies ==
    <<cfgVars, clockVars, histVars, mu, file, pc, attempt, err, resp, idx,
      reqCookies, result>>

\* NewCookieStore(filePath): an empty store when the file does not exist,
\* an error when it cannot be parsed, the cookies of the file otherwise.
\* The caller opens the store, and opens a second one after a Save.
NewCookieStore ==
    /\ spc \in {"new", "saved"}
    /\ IF cookieFile.kind = "corrupt"
       THEN /\ spc' = "failed"
            /\ UNCHANGED <<cookies, store2>>
       ELSE LET loaded == Load(cookieFile.cookies, Len(cookieFile.cookies))
            IN IF spc = "new"
               THEN /\ cookies' = loaded
                    /\ spc' = "open"
                    /\ UNCHANGED store2
               ELSE /\ store2' = loaded
                    /\ spc' = "reopened"
                    /\ UNCHANGED cookies
    /\ UNCHANGED <<cookieFile, sets, parseVars, transportButCookies, ordVars>>

\* store.Set(cookie)
Set ==
    /\ spc = "open"
    /\ Len(sets) < MaxSets
    /\ \E c \in SetCookies :
         /\ cookies' = StoreSet(cookies, c)
         /\ sets' = Append(sets, c)
    /\ UNCHANGED <<cookieFile, store2, spc, parseVars, transportButCookies,
                   ordVars>>

\* c.SaveCookies(): CookieStore.Save writes the whole file, or fails and
\* leaves the file as it was or broken.
SaveCookies ==
    /\ spc = "open"
    /\ \E ok \in BOOLEAN :
         IF ok
         THEN /\ cookieFile' \in CookieFilesOf(cookies)
              /\ spc' = "saved"
         ELSE /\ cookieFile' \in {cookieFile, Corrupt}
              /\ spc' = "open"
    /\ UNCHANGED <<cookies, store2, sets, parseVars, transportButCookies,
                   ordVars>>

NextStore ==
    \/ NewCookieStore
    \/ Set
    \/ SaveCookies

\* A caller opens a CookieStore on a path, calls Set up to MaxSets times,
\* saves, and opens a second store on the path.
InitStore ==
    /\ ClientIdle
    /\ NoParse
    /\ cookieFile \in FoundFiles
    /\ store2 = EmptyStore
    /\ spc = "new"
    /\ sets = <<>>

SpecStore == InitStore /\ [][NextStore]_vars

\* ------------------------------------------------------------ curl command

\* The characters of a curl command: the flag (-b or --cookie, as one
\* symbol), a blank, the two quotes, a backslash, and the characters of a
\* cookie string.
CurlChars == {"-b", " ", "'", "\"", "\\", ";", "=", "k"}

\* The first index from i on that is not a blank (Len(s) + 1: none).
RECURSIVE SkipBlanks(_, _)
SkipBlanks(s, i) ==
    IF i > Len(s) \/ s[i] # " " THEN i ELSE SkipBlanks(s, i + 1)

\* The first index from i on whose character is in stops (Len(s) + 1:
\* none).
RECURSIVE Until(_, _, _)
Until(s, i, stops) ==
    IF i > Len(s) \/ s[i] \in stops THEN i ELSE Until(s, i + 1, stops)

\* The submatches of (?:-b|--cookie)\s+q([^...]+)q for a match that
\* starts at i, <<>> when there is none there.
QuotedAt(s, i, q, excluded) ==
    LET j == SkipBlanks(s, i + 1)
        k == Until(s, j + 1, excluded)
    IN IF /\ s[i] = "-b"
          /\ j > i + 1
          /\ j <= Len(s)
          /\ s[j] = q
          /\ k > j + 1
          /\ k <= Len(s)
          /\ s[k] = q
       THEN <<SubSeq(s, j + 1, k - 1)>>
       ELSE <<>>

singleQuoteRegexNoDouble(s, i) == QuotedAt(s, i, "'", {"'", "\""})

\* singleQuoteRegex: (?:-b|--cookie)\s+'([^']+)'
singleQuoteRegex(s, i) == QuotedAt(s, i, "'", {"'"})

\* doubleQuoteRegex: (?:-b|--cookie)\s+"([^"]+)"
doubleQuoteRegex(s, i) == QuotedAt(s, i, "\"", {"\""})

\* unquotedRegex: (?:-b|--cookie)\s+([^\s\\]+(?:;[^\s\\]+)*)
unquotedRegex(s, i) ==
    LET j == SkipBlanks(s, i + 1)
        k == Until(s, j, {" ", "\\"})
    IN IF s[i] = "-b" /\ j > i + 1 /\ k > j
       THEN <<SubSeq(s, j, k - 1)>>
       ELSE <<>>

\* FindStringSubmatch: the submatches of the leftmost match from i on
RECURSIVE FindStringSubmatch(_, _, _)
FindStringSubmatch(form, s, i) ==
    IF i > Len(s) THEN <<>>
    ELSE LET m == CASE form = "single" -> singleQuoteRegex(s, i)
                    [] form = "double" -> doubleQuoteRegex(s, i)
                    [] form = "unquoted" -> unquotedRegex(s, i)
         IN IF m # <<>> THEN m ELSE FindStringSubmatch(form, s, i + 1)

\* strings.Split(s, sep)
RECURSIVE Split(_, _)
Split(s, sep) ==
    LET k == Until(s, 1, {sep})
    IN IF k > Len(s) THEN <<s>>
       ELSE <<SubSeq(s, 1, k - 1)>> \o Split(SubSeq(s, k + 1, Len(s)), sep)

\* strings.TrimSpace(s)
TrimSpace(s) ==
    LET at == {i \in DOMAIN s : s[i] # " "}
    IN IF at = {} THEN <<>>
       ELSE SubSeq(s, CHOOSE i \in at : \A j \in at : i <= j,
                   CHOOSE i \in at : \A j \in at : j <= i)

\* parseCookieString, its loop over the first n pairs: an empty pair and a
\* pair without "=" are skipped, the others cut at their first "="
RECURSIVE PairsLoop(_, _)
PairsLoop(pairs, n) ==
    IF n = 0 THEN <<>>
    ELSE LET before == PairsLoop(pairs, n - 1)
             pair == TrimSpace(pairs[n])
             at == Until(pair, 1, {"="})
         IN IF pair = <<>> \/ at > Len(pair) THEN before
            ELSE Append(before,
                        [name |-> TrimSpace(SubSeq(pair, 1, at - 1)),
                         value |-> TrimSpace(SubSeq(pair, at + 1,
                                                    Len(pair)))])

parseCookieString(cookieStr) ==
    LET pairs == Split(cookieStr, ";")
    IN PairsLoop(pairs, Len(pairs))

\* ExtractFromCurl: the single-quoted form, then the double-quoted one,
\* then the unquoted one; an error when none matches
ExtractFromCurl(curlCmd) ==
    LET single == FindStringSubmatch("single", curlCmd, 1)
        double == FindStringSubmatch("double", curlCmd, 1)
        unquoted == FindStringSubmatch("unquoted", curlCmd, 1)
    IN IF single # <<>>
       THEN [cookies |-> parseCookieString(single[1]), err |-> "nil"]
       ELSE IF double # <<>>
       THEN [cookies |-> parseCookieString(double[1]), err |-> "nil"]
       ELSE IF unquoted # <<>>
       THEN [cookies |-> parseCookieString(unquoted[1]), err |-> "nil"]
       ELSE [cookies |-> <<>>, err |-> "no cookies found"]

\* ExtractFromCurl(curlCmd)
ExtractFromCurlCall ==
    /\ fn = "ExtractFromCurl"
    /\ ~output.done
    /\ output' = Returned(ExtractFromCurl(input))
    /\ UNCHANGED <<fn, input, storeVars, transportVars, ordVars>>

NextCurl == ExtractFromCurlCall

\* One call of ExtractFromCurl on a command of up to MaxCurlLen
\* characters.
InitCurl ==
    /\ ClientIdle
    /\ NoStore
    /\ fn = "ExtractFromCurl"
    /\ \E n \in 0 .. MaxCurlLen : input \in [1 .. n -> CurlChars]
    /\ output = NotYet

SpecCurl == InitCurl /\ [][NextCurl]_vars

\* ------------------------------------------------------ import from curl

\* The text of one symbol.
Text(s) == s[1]

\* name=value pairs of a cookie string, a name and a value one symbol each.
ImportPairs ==
    {<<n, "=", v>> : n \in {"session-id", "test-cookie"}, v \in {"a", "b"}}

\* Cookie strings of one pair and of two pairs.
ImportCookieStrings ==
    ImportPairs \cup {p \o <<";", " ">> \o q : p, q \in ImportPairs}

\* The curl commands handed to ImportFromCurl: with a quoted cookie
\* argument, and without one.
ImportCommands ==
    {<<"-b", " ", q>> \o c \o <<q>> :
        q \in {"'", "\""}, c \in ImportCookieStrings}
    \cup {<<>>, <<"k">>}

\* for _, c := range cookies { s.Set(c) }, its first n rounds
RECURSIVE SetEach(_, _, _)
SetEach(store, list, n) ==
    IF n = 0 THEN store
    ELSE StoreSet(SetEach(store, list, n - 1),
                  [name |-> Text(list[n].name),
                   value |-> Text(list[n].value)])

\* s.ImportFromCurl(curlCmd): the error of ExtractFromCurl, or Set for each
\* cookie and then the result of Save.
ImportFromCurl ==
    /\ spc = "open"
    /\ fn = "ImportFromCurl"
    /\ ~output.done
    /\ LET found == ExtractFromCurl(input)
       IN IF found.err # "nil"
          THEN /\ output' = Returned([err |-> found.err])
               /\ UNCHANGED <<cookies, cookieFile, spc>>
          ELSE /\ cookies' = SetEach(cookies, found.cookies,
                                     Len(found.cookies))
               /\ \E ok \in BOOLEAN :
                    IF ok
                    THEN /\ cookieFile' \in CookieFilesOf(cookies')
                         /\ output' = Returned([err |-> "nil"])
                         /\ spc' = "saved"
                    ELSE /\ cookieFile' \in {cookieFile, Corrupt}
                         /\ output' =
                                Returned([err |-> "failed to write cookies"])
                         /\ spc' = "open"
    /\ UNCHANGED <<fn, input, store2, sets, transportButCookies, ordVars>>

NextImport ==
    \/ NewCookieStore
    \/ ImportFromCurl

\* A caller opens a CookieStore on a path, imports a curl command, and
\* opens a second store on the path after a successful import.
InitImport ==
    /\ ClientIdle
    /\ cookieFile \in FoundFiles
    /\ store2 = EmptyStore
    /\ spc = "new"
    /\ sets = <<>>
    /\ fn = "ImportFromCurl"
    /\ input \in ImportCommands
    /\ output = NotYet

SpecImport == InitImport /\ [][NextImport]_vars

\* ------------------------------------------------------ transport: claims

Retryable(o) == o.neterr \/ o.status = StatusTooManyRequests

AuthStatus(o) ==
    ~o.neterr /\ o.status \in {StatusForbidden, StatusUnauthorized}

\* C1 (as claimed): any two consecutive HTTP requests of one Client, retry
\* attempts of one call included, start at least rateLimit apart.
C1_RequestsSpaced ==
    [][\A p \in Procs :
         (pc[p] = "do" /\ pc'[p] = "await" /\ sent) => sinceSend >= rateLimit]_vars

\* C2 (as claimed): when every one of the maxRetries+1 attempts of a call
\* ended in a network failure or a 429, the call returns the terminal
\* error that names the attempt count.
C2_ExhaustedRetriesFail ==
    \A p \in Procs :
        ( /\ pc[p] = "ret"
          /\ outcomes[p] # <<>>
          /\ Len(outcomes[p]) = maxRetries + 1
          /\ \A i \in DOMAIN outcomes[p] : Retryable(outcomes[p][i]) )
        => result[p] = [kind |-> "failed", attempts |-> maxRetries + 1]

\* C3: an attempt that receives 401 or 403 is the last attempt of its call,
\* and the call returns the authentication error at once.
C3_AuthFailureNotRetried ==
    \A p \in Procs : \A i \in DOMAIN outcomes[p] :
        AuthStatus(outcomes[p][i])
        => /\ i = Len(outcomes[p])
           /\ pc[p] = "ret"
           /\ result[p].kind = "autherr"

\* C3's case: a 403 or 401 on the second attempt of a call that had a
\* retry left.
C3_Witness ==
    \E p \in Procs :
        /\ pc[p] = "ret"
        /\ Len(outcomes[p]) = 2
        /\ maxRetries >= 2
        /\ AuthStatus(outcomes[p][2])
        /\ result[p].kind = "autherr"

\* C4 (as claimed): a call sends at least one and at most maxRetries+1
\* attempts, and a further attempt only after a network failure or a 429.
C4_AttemptCount ==
    \A p \in Procs :
        /\ Len(outcomes[p]) <= maxRetries + 1 \/ outcomes[p] = <<>>
        /\ \A i \in DOMAIN outcomes[p] :
               i < Len(outcomes[p]) => Retryable(outcomes[p][i])
        /\ pc[p] = "ret" => Len(outcomes[p]) >= 1

\* C5 (as claimed): within one call every pause between two attempts is
\* strictly longer than the pause before it.
C5_PausesStrictlyIncrease ==
    \A p \in Procs : \A k \in DOMAIN pauses[p] :
        k > 1 => pauses[p][k] > pauses[p][k - 1]

\* C5 (amended): the pause after attempt k+1 is strictly longer than the
\* pause after attempt k, unless attempt k ended in a 429 and attempt k+1
\* did not.
C5_PausesIncreaseUnlessAfter429 ==
    \A p \in Procs : \A k \in DOMAIN pauses[p] :
        ( /\ k > 1
          /\ ~( /\ outcomes[p][k - 1].status = StatusTooManyRequests
                /\ outcomes[p][k].status # StatusTooManyRequests ) )
        => pauses[p][k] > pauses[p][k - 1]

\* C5's case: two pauses in one call, a network failure and then a 429.
C5_Witness ==
    \E p \in Procs :
        /\ Len(pauses[p]) = 2
        /\ outcomes[p][1].neterr
        /\ outcomes[p][2].status = StatusTooManyRequests
        /\ pauses[p][2] > pauses[p][1]

\* C6: when doRequest returns a response, every cookie of that response is
\* in the store under its name, Save has run if autoSave is on, and a
\* failed Save leaves the result a response.
C6_CookiesMergedBeforeReturn ==
    \A p \in Procs :
        /\ (pc[p] = "ret" /\ result[p].kind = "resp")
           => /\ \A i \in DOMAIN resp[p].cookies :
                    cookies[resp[p].cookies[i].name] = resp[p].cookies[i].value
              /\ autoSave => saveCalls[p] = 1
        /\ (pc[p] = "ret" /\ saveFailed[p]) => result[p].kind = "resp"

\* C6's case: a response with two cookies is returned after a Save that
\* failed.
C6_Witness ==
    \E p \in Procs :
        /\ pc[p] = "ret"
        /\ result[p].kind = "resp"
        /\ Len(resp[p].cookies) = 2
        /\ saveFailed[p]

\* C7: at most one goroutine is between c.mu.Lock() and c.mu.Unlock(), and
\* every write of lastRequest comes at least rateLimit after the one before.
GateExclusive ==
    Cardinality({p \in Procs : pc[p] \in {"gate", "gateSleep", "stamp"}}) <= 1

StampSpaced ==
    \A p \in Procs :
        (pc[p] = "stamp" /\ pc'[p] = "headers" /\ stamped)
        => sinceStamp >= rateLimit

C7_GateIsCriticalSection == [](GateExclusive) /\ [][StampSpaced]_vars

\* C7's case: a goroutine that slept in the gate is about to write
\* lastRequest while the other goroutine, which wrote it before, is in
\* flight.
C7_Witness ==
    \E p, q \in Procs :
        /\ p # q
        /\ pc[p] = "stamp"
        /\ stamped
        /\ sinceStamp = rateLimit
        /\ pc[q] \in {"headers", "loop", "do", "await"}

\* --------------------------------------------------- orchestrator: claims

\* The offset a list-page URL asks for: the startIndex of its query, 0
\* when the query has none.
OffsetOf(u) == IF "startIndex" \in DOMAIN u THEN u.startIndex ELSE 0

\* The i-th page parsed for the year ends the pagination: it yields no
\* summary, or fewer than 10, or brings the running total to MaxOrders.
TerminalPage(i) ==
    \/ pageLens[i] = 0
    \/ pageLens[i] < 10
    \/ opts.MaxOrders > 0 /\ SumTo(pageLens, i) >= opts.MaxOrders

\* C8: for one year, fetchYearOrders requests the list page at offsets
\* 0, 10, 20, ... in that order; after the first page that yields zero
\* summaries, fewer than 10 summaries, or brings the running total to
\* MaxOrders (when positive) it requests no further page, and without a
\* failure it stops at no other page; pages of 10, 10 and 4 summaries cause
\* exactly three fetches.
C8_Pagination ==
    /\ \A i \in DOMAIN reqs : OffsetOf(reqs[i]) = 10 * (i - 1)
    /\ \A i \in DOMAIN pageLens :
           TerminalPage(i) => Len(reqs) = i /\ opc # "page"
    /\ opc = "filter" => pageLens # <<>> /\ TerminalPage(Len(pageLens))
    /\ pageLens = <<10, 10, 4>> => Len(reqs) = 3 /\ opc # "page"

\* C8 witness: the year's pages yielded 10, 10 and 4 summaries and the
\* pagination has ended after the three requests.
C8_Witness ==
    /\ opc = "filter"
    /\ pageLens = <<10, 10, 4>>
    /\ Len(reqs) = 3
    /\ Len(yearSummaries) = 24

\* The years from year e down to year s, descending.
Descending(e, s) == [i \in 1..Max(0, e - s + 1) |-> e - i + 1]

Kept == SubSeq(allSummaries, Len(base) + 1, Len(allSummaries))

InRange(d) ==
    \/ d = 0
    \/ /\ opts.StartDate # 0 => d >= opts.StartDate
       /\ opts.EndDate # 0 => d <= opts.EndDate

\* C10: the filter loop of fetchOrderSummaries keeps a summary of the year
\* if and only if its date is zero, or is not before StartDate (when set)
\* and not after EndDate (when set), both bounds inclusive; it keeps the
\* summaries in their order and touches nothing kept before.
C10_DateFilter ==
    opc = "limit" =>
        /\ SubSeq(allSummaries, 1, Len(base)) = base
        /\ \A i \in DOMAIN yearSummaries :
               (\E j \in DOMAIN Kept : Kept[j] = yearSummaries[i])
                   <=> InRange(yearSummaries[i].Date)
        /\ \A j \in DOMAIN Kept :
               \E i \in DOMAIN yearSummaries : yearSummaries[i] = Kept[j]
        /\ \A j, k \in DOMAIN Kept :
               j < k => Kept[j].ID[2] < Kept[k].ID[2]

\* C10 witness: the filter loop has run on a year, kept a summary dated
\* exactly on a bound of the range and one without a date, and dropped
\* another.
C10_Witness ==
    /\ opc = "limit"
    /\ Len(Kept) < Len(yearSummaries)
    /\ \E j \in DOMAIN Kept :
           Kept[j].Date # 0 /\ Kept[j].Date \in {opts.StartDate, opts.EndDate}
    /\ \E j \in DOMAIN Kept : Kept[j].Date = 0

\* The first m of the summaries, all of them when there are fewer.
FirstOf(summaries, m) == [i \in 1..Min(Len(summaries), m) |-> summaries[i]]

\* The summaries of the year that pass the date filter, in their order.
Retained == SelectSeq(yearSummaries, LAMBDA s : InRange(s.Date))

C11_AtMostMaxOrders ==
    opts.MaxOrders > 0 =>
        /\ Len(orders) <= opts.MaxOrders
        /\ opc # "limit" => Len(allSummaries) <= opts.MaxOrders
        /\ opc = "done" /\ oerr = "nil" =>
               /\ Len(orders) = Len(allSummaries)
               /\ \A i \in DOMAIN orders :
                      orders[i].ID = allSummaries[i].ID

C11_CutKeepsFirst ==
    opc = "limit" /\ opts.MaxOrders > 0 =>
        \/ /\ opc' = "limit"
           /\ allSummaries' = allSummaries
        \/ /\ Len(allSummaries) < opts.MaxOrders
           /\ allSummaries' = allSummaries
           /\ opc' = "year"
        \/ /\ Len(allSummaries) >= opts.MaxOrders
           /\ allSummaries' = FirstOf(allSummaries, opts.MaxOrders)
           /\ opc' = "summaries"

\* C11: with MaxOrders = m > 0, FetchOrders never returns more than m
\* orders, whatever the years, the pages and the date range; the check
\* after a year's filter loop keeps the first m of the summaries retained
\* so far, in fetch order, and ends the loop over years when there are m,
\* and the orders returned are those summaries, one each and in order.
C11_MaxOrders == [](C11_AtMostMaxOrders) /\ [][C11_CutKeepsFirst]_vars

\* C11 witness: with MaxOrders = 3, FetchOrders returned 3 orders after
\* the second year it fetched brought the retained summaries above 3.
C11_Witness ==
    /\ opc = "done"
    /\ oerr = "nil"
    /\ opts.MaxOrders = 3
    /\ Len(orders) = 3
    /\ base # <<>>
    /\ Len(base) + Len(Retained) > 3

\* C12: with IncludeDetails set, every order expanded so far stands for
\* the summary at its position, whose details were requested in that
\* order; where the detail fetch or parse failed the order holds exactly
\* the summary's ID, Date and Total; a return without cancellation holds
\* one order per retained summary, the ones after a failure included.
C12_DetailsOnePerSummary ==
    opts.IncludeDetails =>
        /\ Len(gets) = Len(orders)
        /\ Len(orders) <= Len(allSummaries)
        /\ \A i \in DOMAIN orders :
               /\ gets[i].kind = "details"
               /\ gets[i].id = allSummaries[i].ID
               /\ orders[i].ID = allSummaries[i].ID
               /\ orders[i].Date = allSummaries[i].Date
               /\ gets[i].out \in {"auth", "transport", "parse"} =>
                      orders[i] = [ID    |-> allSummaries[i].ID,
                                   Date  |-> allSummaries[i].Date,
                                   Total |-> allSummaries[i].Total]
        /\ opc = "done" /\ oerr = "nil" => Len(orders) = Len(allSummaries)

\* C12 witness: FetchOrders returned three orders without cancellation;
\* the details of the first failed to parse, those of the second were
\* read, the fetch of the third failed.
C12_Witness ==
    /\ opc = "done"
    /\ oerr = "nil"
    /\ opts.IncludeDetails
    /\ Len(orders) = 3
    /\ gets[1].out = "parse"
    /\ gets[2].out = "ok"
    /\ orders[2].Items = 1
    /\ gets[3].out = "transport"
    /\ orders[3].Date # 0

\* The orders that hold what the summaries hold.
AsOrders(summaries) ==
    [i \in 1..Len(summaries) |-> [ID    |-> summaries[i].ID,
                                  Date  |-> summaries[i].Date,
                                  Total |-> summaries[i].Total]]

C13_ReturnOnCancel ==
    opc # "done" /\ opc' = "done" /\ oerr' = "canceled" =>
        IF opc = "year"
        THEN orders' = AsOrders(allSummaries)
        ELSE orders' = orders

\* C13 (as claimed): when FetchOrders observes the cancellation, between
\* years or between detail fetches, it returns the cancellation error
\* together with everything accumulated so far: the summaries of the years
\* already fetched, or the orders already expanded.
C13_CancelKeepsResults == [][C13_ReturnOnCancel]_vars

\* The positions before a year iteration, before a detail fetch and before
\* a transaction fetch of FetchOrders, FetchOrderWithTransactions and
\* FetchAllTransactions.
CheckPoints == {"year", "summaries", "FetchOrderWithTransactions",
                "WithTransactions", "FetchAllTransactions"}

C14_CheckedBeforeFetch ==
    cancelled /\ opc \in CheckPoints => gets' = gets /\ opc' # "page"

\* C14 (as claimed): before every year iteration, every detail fetch and
\* every transaction fetch of FetchOrders, FetchOrderWithTransactions and
\* FetchAllTransactions, a context that is already cancelled keeps the
\* next fetch from being issued.
C14_NoFetchWhenCancelled == [][C14_CheckedBeforeFetch]_vars

\* The step is a list-page request that yields no parsed page: the fetch
\* or the parse of the page failed.
PageFails == Len(reqs') = Len(reqs) + 1 /\ pageLens' = pageLens

C15_FailureEndsYearOnly ==
    PageFails =>
        /\ opc' = "year"
        /\ yi' = yi + 1
        /\ years' = years
        /\ allSummaries' = allSummaries
        /\ oerr' = "nil"

C15_OtherYearsReturned ==
    /\ oerr \in {"nil", "canceled"}
    /\ opc \in {"summaries", "done"} /\ oerr = "nil" =>
           \/ yi > Len(years)
           \/ opts.MaxOrders > 0 /\ Len(allSummaries) = opts.MaxOrders
    /\ opc = "done" /\ oerr = "nil" /\ ~opts.IncludeDetails =>
           orders = AsOrders(allSummaries)

\* C15: when fetching or parsing a list page fails, the pagination of that
\* year ends and the loop over years goes on with the next year, keeping
\* the summaries it has; the failure never becomes the error of the call,
\* which, unless cancelled, ends only after the last year or with
\* MaxOrders summaries and returns the summaries of the other years.
C15_YearFailureSkipped ==
    [](C15_OtherYearsReturned) /\ [][C15_FailureEndsYearOnly]_vars

\* C15 witness: of two years the first failed on its first page with an
\* authentication error; the second was fetched and its summaries are
\* returned with a nil error.
C15_Witness ==
    /\ opc = "done"
    /\ oerr = "nil"
    /\ ~opts.IncludeDetails
    /\ Len(years) = 2
    /\ authSeen
    /\ base = <<>>
    /\ orders # <<>>
    /\ \A i \in DOMAIN orders : orders[i].ID[1] = years[2]

\* C16 (as claimed): an authentication failure reaches the caller as the
\* error of expired credentials: FetchOrder and FetchTransactions return
\* it, and FetchOrders returns an error when a 401 or 403 was met and no
\* result could be produced.
C16_AuthFailureSurfaces ==
    opc = "done" /\ authSeen /\ oerr # "canceled" =>
        /\ years = <<>> /\ ti = 1 /\ Len(gets) = 1 => oerr = "auth"
        /\ years # <<>> /\ orders = <<>> => oerr # "nil"

C17_OrderWithoutTransactions ==
    opc = "done" /\ Len(gets) = 2 /\ gets[1].kind = "details" =>
        /\ gets[1].out = "ok"
        /\ gets[2].kind = "transactions"
        /\ oerr = "nil"
        /\ retOrder # NoOrder
        /\ retOrder.ID = orderIDs[1]
        /\ gets[2].out \in {"auth", "transport", "parse"} => retTxs = <<>>

C17_DetailsDecide ==
    opc = "FetchOrderWithTransactions" /\ gets' # gets =>
        IF gets'[1].out \in {"auth", "transport", "parse"}
        THEN /\ opc' = "done"
             /\ oerr' = gets'[1].out
             /\ retOrder' = NoOrder
             /\ retTxs' = <<>>
        ELSE /\ opc' = "WithTransactions"
             /\ oerr' = "nil"
             /\ retOrder' # NoOrder

\* C17: FetchOrderWithTransactions returns the order, no transactions and
\* a nil error whenever the details were fetched and parsed and the fetch
\* or the parse of the transactions failed; it returns an error, and then
\* no order, exactly when the fetch or the parse of the details failed.
C17_TransactionsOptional ==
    [](C17_OrderWithoutTransactions) /\ [][C17_DetailsDecide]_vars

\* C17 witness: FetchOrderWithTransactions read the details, failed on the
\* transactions with an authentication error and returned the order alone
\* with a nil error.
C17_Witness ==
    /\ opc = "done"
    /\ Len(gets) = 2
    /\ gets[1] = [kind |-> "details", id |-> orderIDs[1], out |-> "ok"]
    /\ gets[2] = [kind |-> "transactions", id |-> orderIDs[1],
                  out |-> "auth"]
    /\ retOrder.ID = orderIDs[1]
    /\ retTxs = <<>>
    /\ oerr = "nil"

\* C18: FetchAllTransactions requests the transactions of the identifiers
\* in input order; its result holds an entry for exactly the identifiers
\* whose fetch and parse succeeded, a failure being skipped and the round
\* after it made; it returns a nil error after the last identifier, or the
\* entries so far and the cancellation error when it finds ctx cancelled.
C18_AllTransactions ==
    Len(gets) = ti - 1 =>
        /\ Len(gets) <= Len(orderIDs)
        /\ \A i \in DOMAIN gets :
               gets[i].kind = "transactions" /\ gets[i].id = orderIDs[i]
        /\ DOMAIN txResult =
               {gets[i].id : i \in {j \in DOMAIN gets : gets[j].out = "ok"}}
        /\ \A id \in DOMAIN txResult :
               \A k \in DOMAIN txResult[id] : txResult[id][k].OrderID # <<>>
        /\ oerr \in {"nil", "canceled"}
        /\ opc = "done" =>
               \/ oerr = "nil" /\ Len(gets) = Len(orderIDs)
               \/ oerr = "canceled" /\ cancelled
                      /\ Len(gets) < Len(orderIDs)

\* C18 witness: of three identifiers the fetch of the first failed, the
\* transactions of the second were stored, and ctx was found cancelled
\* before the third: the one entry is returned with the cancellation
\* error.
C18_Witness ==
    /\ opc = "done"
    /\ oerr = "canceled"
    /\ Len(orderIDs) = 3
    /\ ti = 3
    /\ Len(gets) = 2
    /\ gets[1].out = "transport"
    /\ gets[2].out = "ok"
    /\ DOMAIN txResult = {orderIDs[2]}
    /\ orderIDs[1] # orderIDs[2]

\* ----------------------------------------------------- transport: liveness

C19_AttemptsBounded ==
    \A p \in Procs :
        /\ Len(outcomes[p]) <= Max(maxRetries + 1, 0)
        /\ slept[p] <= attempt[p] + throttlePause

C19_CallEnds == \A p \in Procs : (pc[p] = "gate") ~> (pc[p] = "done")

\* C19: every call of doRequest ends: whatever sequence of network
\* failures, 429s and other responses its attempts meet, each attempt
\* ending in one of them, the call makes no more than maxRetries + 1
\* attempts, sleeps a bounded time before each, and leaves doRequest.
C19_DoRequestEnds == [](C19_AttemptsBounded) /\ C19_CallEnds

\* C19 witness: a call is about to return after as many attempts as the
\* retry budget allows, a network failure and a 429 among them.
C19_Witness ==
    /\ pc["g1"] = "ret"
    /\ maxRetries = MaxRetriesCfg
    /\ Len(outcomes["g1"]) = maxRetries + 1
    /\ \E i \in DOMAIN outcomes["g1"] : outcomes["g1"][i] = NetErr
    /\ \E i \in DOMAIN outcomes["g1"] :
           outcomes["g1"][i].status = StatusTooManyRequests

\* ------------------------------------------------ orchestrator: termination

\* C20 (as claimed): the pagination of a year ends after finitely many
\* page fetches, whatever the server answers, also with MaxOrders = 0 and
\* every answer a full page: within the pages followed here, fetchYearOrders
\* is never found asking for one more page after MaxPages pages.
C20_PaginationEnds == opc = "page" => Len(pageLens) < MaxPages

\* ------------------------------------------------------------ parser: claims

\* Whether an order card yields an identifier: from its detail link or
\* from its identifier region.
Identified(card) ==
    \/ card.link.exists /\ extractOrderIDFromURL(card.link) # <<>>
    \/ extractOrderIDFromText(card.idText) # <<>>

\* C21: ParseOrderList returns one summary for each order card that yields
\* an identifier and none for a card that yields none, so that every
\* summary it returns carries a well-formed (19-character) identifier and
\* three cards of which one has no identifier give two summaries.
C21_OnlyIdentifiedCards ==
    fn = "ParseOrderList" /\ output.done =>
        /\ Len(output.value) = Len(SelectSeq(input, Identified))
        /\ \A i \in DOMAIN output.value : output.value[i].ID \in KnownIDs

\* The status and the date a single pass over the nodes in document order
\* carries after the first n of them.
RECURSIVE RunningState(_, _)
RunningState(nodes, n) ==
    IF n = 0 THEN [Status |-> "", Date |-> 0]
    ELSE LET b == RunningState(nodes, n - 1)
         IN CASE nodes[n].kind = "header" /\ nodes[n].text # "" ->
                   [b EXCEPT !.Status = nodes[n].text]
              [] nodes[n].kind = "date" /\ nodes[n].date # 0 ->
                   [b EXCEPT !.Date = nodes[n].date]
              [] OTHER -> b

\* The positions of the line items ParseTransactions turns into
\* transactions, in document order.
AddedItems(nodes) ==
    SelectSeq([k \in 1..Len(nodes) |-> k],
              LAMBDA k : /\ nodes[k].kind = "item"
                         /\ \/ nodes[k].method # ""
                            \/ parsePrice(SelectSeq(nodes[k].amount,
                                              LAMBDA t : t # "-")) > 0)

\* C22: in ParseTransactions each transaction of a line item carries the
\* status of the nearest status header before the line item and the date
\* of the nearest date marker before it, in document order.
C22_StatusAndDateRun ==
    fn = "ParseTransactions" /\ output.done
       /\ AddedItems(input.nodes) # <<>> =>
        \A i \in DOMAIN output.value :
            LET at == RunningState(input.nodes, AddedItems(input.nodes)[i])
            IN /\ output.value[i].Status = at.Status
               /\ output.value[i].Date = at.Date

\* The ASINs the product links of the shipment sections carry.
DistinctASINs(links) == {links[i] : i \in DOMAIN links} \ {""}

\* C23, as stated: on a detail page with as many product links in its
\* shipment sections as unitPrice regions, ParseOrderDetails yields one
\* item per link, item i with the value of region i as its UnitPrice.
C23_PriceRegionPerLink ==
    fn = "ParseOrderDetails" /\ output.done
       /\ Len(input.links) = Len(input.prices) =>
        /\ Len(output.value.Items) = Len(input.links)
        /\ \A i \in DOMAIN output.value.Items :
               output.value.Items[i].UnitPrice = parsePrice(input.prices[i])

\* C23: ParseOrderDetails yields one item per distinct ASIN of the product
\* links of the shipment sections, however many unitPrice regions the page
\* has; item i has the value of region i as its UnitPrice when there is a
\* region i and 0 otherwise, so a region past the last item is ignored.
C23_PriceRegionPerItem ==
    fn = "ParseOrderDetails" /\ output.done =>
        LET items == output.value.Items
        IN /\ Len(items) = Cardinality(DistinctASINs(input.links))
           /\ \A i \in DOMAIN items :
                  items[i].UnitPrice =
                      IF i <= Len(input.prices)
                      THEN parsePrice(input.prices[i])
                      ELSE 0

\* C23 happens: two items from three links, with the prices of the first
\* two of three regions, which differ.
C23_Witness ==
    /\ fn = "ParseOrderDetails"
    /\ output.done
    /\ Len(input.links) = 3
    /\ Len(input.prices) = 3
    /\ Len(output.value.Items) = 2
    /\ output.value.Items[1].UnitPrice = 5
    /\ output.value.Items[2].UnitPrice = 7

\* C24: every item ParseOrderDetails returns has Quantity >= 1 and
\* Price = UnitPrice * Quantity; an item without a quantity region has
\* Quantity 1 and Price = UnitPrice.
C24_LineTotals ==
    fn = "ParseOrderDetails" /\ output.done =>
        \A i \in DOMAIN output.value.Items :
            LET item == output.value.Items[i]
            IN /\ item.Quantity >= 1
               /\ item.Price = item.UnitPrice * item.Quantity
               /\ i > Len(input.qtys) =>
                      item.Quantity = 1 /\ item.Price = item.UnitPrice

\* C24 happens: an item of quantity 2 at 5 a piece, and a second item
\* that has a price region and no quantity region.
C24_Witness ==
    /\ fn = "ParseOrderDetails"
    /\ output.done
    /\ Len(input.qtys) = 1
    /\ Len(input.prices) = 3
    /\ Len(output.value.Items) = 2
    /\ output.value.Items[1].Quantity = 2
    /\ output.value.Items[1].Price = 10
    /\ output.value.Items[2].Quantity = 1
    /\ output.value.Items[2].Price = 7

\* ------------------------------------------------------ transactions: claims

\* The transactions a step has FetchTransactions return for orderID.
ReturnedTxs(orderID) ==
    IF opc = "FetchAllTransactions" THEN txResult'[orderID] ELSE retTxs'

\* A step in which FetchTransactions read and parsed a page.
TransactionsRead ==
    /\ Len(gets') = Len(gets) + 1
    /\ gets'[Len(gets')].kind = "transactions"
    /\ gets'[Len(gets')].out = "ok"

C25_Filled ==
    TransactionsRead =>
        LET orderID == gets'[Len(gets')].id
            page == ParseTransactions(input')
            txs == ReturnedTxs(orderID)
        IN /\ Len(txs) = Len(page)
           /\ \A i \in DOMAIN txs :
                  /\ txs[i].OrderID # <<>>
                  /\ txs[i].OrderID = IF page[i].OrderID # <<>>
                                      THEN page[i].OrderID
                                      ELSE orderID
                  /\ txs[i].Amount = page[i].Amount
           /\ \A x \in KnownIDs :
                  (\A i \in DOMAIN page : page[i].OrderID = x)
                      => \A i \in DOMAIN txs : txs[i].OrderID = x

\* C25: every transaction FetchTransactions(orderID) returns carries a
\* non-empty order identifier: the one ParseTransactions resolved on the
\* page, or orderID when it resolved none; when every line item of the
\* page resolves the same order, every transaction carries that order's
\* identifier.
C25_OrderIDSet == [][C25_Filled]_vars

\* C25 happens: FetchTransactions of one order returned a charge that
\* showed no order number, now under the identifier asked for, and a
\* charge of another order under that order's identifier.
C25_Witness ==
    /\ opc = "done"
    /\ Len(gets) = 1
    /\ gets[1].kind = "transactions"
    /\ gets[1].out = "ok"
    /\ orderIDs[1] = <<1, 2>>
    /\ Len(retTxs) = 2
    /\ input.nodes[1].links = <<>>
    /\ retTxs[1].OrderID = <<1, 2>>
    /\ retTxs[2].OrderID = <<1, 1>>

\* ------------------------------------------------------ health check: claims

\* The essential names the store holds.
EssentialHeld ==
    {n \in {EssentialCookies[i] : i \in DOMAIN EssentialCookies} :
        cookies[n] # Absent}

\* C26: HasEssentialCookies is true exactly when the store holds at least
\* 4 of the 10 essential names, and whenever it is true the store holds
\* session-id, session-token, ubid-main and at-main.
C26_CoreCookiesHeld ==
    /\ HasEssentialCookies(cookies) <=> Cardinality(EssentialHeld) >= 4
    /\ HasEssentialCookies(cookies) => CoreCookies \subseteq EssentialHeld

\* C27: no request is sent while HasEssentialCookies is false: neither
\* HealthCheck nor FetchOrder, FetchTransactions and the other operations
\* fetch a page then.
C27_NoFetchWithoutCookies ==
    ~HasEssentialCookies(cookies) => gets = <<>>

\* A step in which HealthCheck returns.
HealthCheckReturns == opc = "HealthCheck" /\ opc' = "done"

\* The one fetch of the step came back with a response of status 200.
FetchedOK ==
    /\ Len(gets') = 1
    /\ gets'[1].kind = "orders"
    /\ gets'[1].out = "ok"
    /\ gets'[1].status = StatusOK

\* The body holds a login-form marker and no order-card content.
LoginWithoutCards(body) ==
    ({"ap_email", "ap_password"} \cap body) # {} /\ "order-card" \notin body

C28_NilIffFetched ==
    HealthCheckReturns =>
        /\ Len(gets') <= 1
        /\ oerr' = "nil" <=> /\ HasEssentialCookies(cookies)
                             /\ FetchedOK
                             /\ ~LoginWithoutCards(input')

\* C28, as stated: HealthCheck returns nil if and only if the essential
\* cookies are present, its single fetch of the order-list page succeeds
\* with status 200 and the body holds no login-form marker without
\* order-card content.
C28_HealthyIffFetched == [][C28_NilIffFetched]_vars

C28_NilIffRead ==
    HealthCheckReturns =>
        /\ Len(gets') <= 1
        /\ oerr' = "nil" <=> /\ HasEssentialCookies(cookies)
                             /\ FetchedOK
                             /\ gets'[1].read
                             /\ ~LoginWithoutCards(input')

\* C28: HealthCheck returns nil if and only if the essential cookies are
\* present, its single fetch of the order-list page succeeds with status
\* 200, the body of the response is read without error and it holds no
\* login-form marker without order-card content.
C28_HealthyIffRead == [][C28_NilIffRead]_vars

\* C28 happens: HealthCheck read a page of status 200 that holds a login
\* marker and order-card content, and returned nil.
C28_Witness ==
    /\ opc = "done"
    /\ Len(gets) = 1
    /\ gets[1].kind = "orders"
    /\ gets[1].status = StatusOK
    /\ gets[1].read
    /\ input = {"ap_email", "order-card"}
    /\ oerr = "nil"

\* ------------------------------------------------------ cookie store: claims

\* The value of the last Set of name n, Absent if it was never set.
RECURSIVE LastSet(_, _)
LastSet(n, k) ==
    IF k = 0 THEN Absent
    ELSE IF sets[k].name = n THEN sets[k].value
    ELSE LastSet(n, k - 1)

C30_SecondStoreAgrees ==
    spc = "reopened" =>
        /\ Count(store2) = Count(cookies)
        /\ \A n \in CookieNames : store2[n] = cookies[n]
        /\ \A k \in DOMAIN sets :
               store2[sets[k].name] = LastSet(sets[k].name, Len(sets))

C30_SetReplaces ==
    Len(sets') = Len(sets) + 1 =>
        LET c == sets'[Len(sets')]
        IN /\ cookies'[c.name] = c.value
           /\ \A n \in CookieNames \ {c.name} : cookies'[n] = cookies[n]
           /\ Count(cookies') =
                  Count(cookies) + (IF cookies[c.name] = Absent THEN 1 ELSE 0)

\* C30: after any sequence of Set calls and a successful Save, a new
\* CookieStore on the same file holds the same names with the same values
\* (Count and Get agree between the two stores); Set of a name the store
\* holds replaces the value and leaves Count unchanged.
C30_SaveLoadRoundTrip ==
    [](C30_SecondStoreAgrees) /\ [][C30_SetReplaces]_vars

\* C30 happens: on a file that held two cookies the caller set a new name
\* and one of the old names twice, with different values, saved, and the
\* second store holds the three cookies with the later value.
C30_Witness ==
    /\ spc = "reopened"
    /\ Len(sets) = 3
    /\ sets[1] = [name |-> "test-cookie", value |-> "b"]
    /\ sets[2] = [name |-> "session-id", value |-> "a"]
    /\ sets[3] = [name |-> "test-cookie", value |-> "a"]
    /\ Count(store2) = 3
    /\ store2["test-cookie"] = "a"
    /\ store2["session-token"] = "b"
    /\ cookieFile.cookies[1].name = "test-cookie"

\* ------------------------------------------------------------ curl: claims

\* The places of the flag in a command.
Flags(s) == {i \in DOMAIN s : s[i] = "-b"}

\* The place where the argument of the flag at i starts: the first
\* character after one blank or more (no element: the flag has none).
ArgAt(s, i) ==
    {j \in i + 2 .. Len(s) :
        /\ \A m \in i + 1 .. j - 1 : s[m] = " "
        /\ s[j] # " "}

Spans(s) ==
    UNION {{<<i, j, k>> : j \in ArgAt(s, i), k \in DOMAIN s} : i \in Flags(s)}

\* The arguments in quotes q: from the quote at t[2] to the next one, at
\* t[3], with something between them.
QuotedArgs(s, q) ==
    {t \in Spans(s) :
        /\ s[t[2]] = q
        /\ t[3] > t[2] + 1
        /\ s[t[3]] = q
        /\ \A m \in t[2] + 1 .. t[3] - 1 : s[m] # q}

\* The arguments without quotes: from t[2] up to the last character
\* before a blank, a backslash or the end.
UnquotedArgs(s) ==
    {t \in Spans(s) :
        /\ t[3] >= t[2]
        /\ \A m \in t[2] .. t[3] : s[m] \notin {" ", "\\"}
        /\ t[3] = Len(s) \/ s[t[3] + 1] \in {" ", "\\"}}

Leftmost(args) == CHOOSE t \in args : \A u \in args : t[1] <= u[1]

\* The cookie string of a command that has an argument.
CookieStringOf(s) ==
    IF QuotedArgs(s, "'") # {}
    THEN LET t == Leftmost(QuotedArgs(s, "'"))
         IN SubSeq(s, t[2] + 1, t[3] - 1)
    ELSE IF QuotedArgs(s, "\"") # {}
    THEN LET t == Leftmost(QuotedArgs(s, "\""))
         IN SubSeq(s, t[2] + 1, t[3] - 1)
    ELSE LET t == Leftmost(UnquotedArgs(s))
         IN SubSeq(s, t[2], t[3])

HasEquals(p) == \E m \in DOMAIN p : p[m] = "="

\* The pairs of a cookie string that have an "=", in their order.
PairsOf(str) == SelectSeq(Split(str, ";"), HasEquals)

\* found holds one cookie per pair of str that has an "=": the name
\* before its first "=", the value after it, both without the blanks
\* around them.
OnePerPair(found, str) ==
    /\ Len(found) = Len(PairsOf(str))
    /\ \A n \in DOMAIN found :
          LET p == PairsOf(str)[n]
              at == CHOOSE m \in DOMAIN p :
                        p[m] = "=" /\ \A l \in 1 .. m - 1 : p[l] # "="
          IN /\ found[n].name = TrimSpace(SubSeq(p, 1, at - 1))
             /\ found[n].value = TrimSpace(SubSeq(p, at + 1, Len(p)))

SummaryOnly(o, s) ==
    /\ o.ID = s.ID
    /\ o.Date = s.Date
    /\ o.Total = s.Total
    /\ OrderField(o, "Subtotal") = 0
    /\ OrderField(o, "Tax") = 0
    /\ OrderField(o, "ShippingFees") = 0
    /\ OrderField(o, "Items") = 0

\* C31: every order FetchOrders returns with IncludeDetails unset, and
\* every fallback order built after a failed detail fetch, has the
\* identifier, date and total of its summary, zero Subtotal, Tax and
\* ShippingFees and no items.
C31_SummaryOnlyOrders ==
    /\ (opc = "done" /\ ~opts.IncludeDetails /\ oerr = "nil") =>
           /\ Len(orders) = Len(allSummaries)
           /\ \A i \in DOMAIN orders :
                  SummaryOnly(orders[i], allSummaries[i])
    /\ opts.IncludeDetails =>
           \A i \in DOMAIN orders \cap DOMAIN gets :
               gets[i].out # "ok" =>
                   SummaryOnly(orders[i], allSummaries[i])

\* C31 happens: FetchOrders with details returned three orders, the second
\* one the fallback of a failed detail fetch with the summary's date, the
\* others read off their detail pages.
C31_Witness ==
    /\ opc = "done"
    /\ opts.IncludeDetails
    /\ Len(orders) = 3
    /\ gets[1].out = "ok"
    /\ gets[2].out = "transport"
    /\ orders[1].Items = 1
    /\ orders[2].Date # 0
    /\ SummaryOnly(orders[2], allSummaries[2])

\* ------------------------------------------------------ order card: date

\* The items of a header list that contain a month name and parse as a
\* date, in document order.
DateFragments(header) ==
    SelectSeq(header, LAMBDA f : f.month /\ f.date # 0)

\* C32: for an order card whose header has several fragments that contain
\* a month name and parse as a date, the summary's date is the date of the
\* first such fragment in document order.
C32_FirstDateWins ==
    (fn = "ParseOrderList" /\ output.done) =>
        \A i \in DOMAIN input :
            DateFragments(input[i].header) # <<>> =>
                output.value[i].Date = DateFragments(input[i].header)[1].date

\* ------------------------------------------------- transactions: the passes

\* The magnitude an amount text shows: its first number, the sign and the
\* currency aside (0: it shows none).
Magnitude(text) ==
    LET at == {i \in DOMAIN text : text[i] \in Numerals}
    IN IF at = {} THEN 0
       ELSE ValueOf(text[CHOOSE i \in at : \A j \in at : i <= j])

\* The places of the line items with a positive amount or a payment
\* method.
Meaningful(nodes) ==
    {j \in DOMAIN nodes :
        /\ nodes[j].kind = "item"
        /\ Magnitude(nodes[j].amount) > 0 \/ nodes[j].method # ""}

\* The i-th smallest element of a set of numbers.
NthOf(S, i) == CHOOSE j \in S : Cardinality({k \in S : k <= j}) = i

\* The transactions of the "Transactions from Order" sections: one per
\* amount that is positive.
SectionAmounts(sections) ==
    IF sections = <<>> THEN <<>>
    ELSE SelectSeq([i \in DOMAIN sections[1].amounts |->
                       Magnitude(sections[1].amounts[i])],
                   LAMBDA a : a > 0)

\* C33: ParseTransactions returns the fallback pass's transactions if and
\* only if the primary pass yields none; when the primary pass yields at
\* least one transaction the result is the primary pass's list, in
\* document order, with nothing added by the fallback.
C33_FallbackOnlyWhenEmpty ==
    (fn = "ParseTransactions" /\ output.done) =>
        LET kept == Meaningful(input.nodes)
            txs == output.value
        IN IF kept # {}
           THEN /\ Len(txs) = Cardinality(kept)
                /\ \A i \in DOMAIN txs :
                       txs[i] = TransactionAt(input.nodes, NthOf(kept, i))
           ELSE /\ Len(txs) = Len(SectionAmounts(input.sections))
                /\ \A i \in DOMAIN txs :
                       /\ txs[i].Amount = SectionAmounts(input.sections)[i]
                       /\ txs[i].OrderID = input.sections[1].orderID

\* C33 happens: a page with two meaningful line items around a header and
\* with a "Transactions from Order" section gave the two line items'
\* transactions, in their order.
C33_Witness ==
    /\ fn = "ParseTransactions"
    /\ output.done
    /\ input.sections # <<>>
    /\ Len(input.nodes) = 3
    /\ input.nodes[2].kind = "header"
    /\ Len(output.value) = 2
    /\ output.value[1].Amount = 7
    /\ output.value[2].Amount = 5

\* C34: a line item is in the result of the primary pass if and only if it
\* has a positive amount or a non-empty payment-method text; every
\* returned transaction, of either pass, has an amount that is not
\* negative: the magnitude of its text, also under a leading minus sign.
C34_MeaningfulOnly ==
    (fn = "ParseTransactions" /\ output.done) =>
        LET primary == LineItemLoop(input.nodes, Len(input.nodes))
            kept == Meaningful(input.nodes)
        IN /\ Len(primary) = Cardinality(kept)
           /\ \A i \in DOMAIN primary :
                  LET node == input.nodes[NthOf(kept, i)]
                  IN /\ primary[i].PaymentMethod = node.method
                     /\ primary[i].Amount = Magnitude(node.amount)
           /\ \A i \in DOMAIN output.value : output.value[i].Amount >= 0

\* C34 happens: of a line item without amount and method, one with a
\* method only and one with the amount "-$5", the last two were returned,
\* with the amounts 0 and 5.
C34_Witness ==
    /\ fn = "ParseTransactions"
    /\ output.done
    /\ Len(input.nodes) = 3
    /\ \A j \in 1..3 : input.nodes[j].kind = "item"
    /\ input.nodes[1].method = "" /\ input.nodes[1].amount = <<>>
    /\ input.nodes[2].method # "" /\ input.nodes[2].amount = <<>>
    /\ input.nodes[3].amount = <<"-", "$", "5">>
    /\ Len(output.value) = 2
    /\ output.value[1].Amount = 0
    /\ output.value[2].Amount = 5

\* ------------------------------------------------------ detail page: items

\* The places of the product links that are the first of their product
\* identifier.
FirstLinks(links) ==
    {i \in DOMAIN links :
        links[i] # "" /\ \A k \in 1..(i - 1) : links[k] # links[i]}

\* C35: ParseOrderDetails yields exactly one OrderItem for each distinct
\* product identifier among the product links of the shipment sections, in
\* the order of the identifiers' first occurrence; no two items of an
\* order share a product identifier.
C35_OneItemPerProduct ==
    (fn = "ParseOrderDetails" /\ output.done) =>
        LET items == output.value.Items
            first == FirstLinks(input.links)
        IN /\ Len(items) = Cardinality(first)
           /\ \A i \in DOMAIN items :
                  items[i].ASIN = input.links[NthOf(first, i)]
           /\ \A i, j \in DOMAIN items :
                  items[i].ASIN = items[j].ASIN => i = j

\* C35 happens: the links of product 2, product 1 and product 2 again gave
\* two items, product 2 first.
C35_Witness ==
    /\ fn = "ParseOrderDetails"
    /\ output.done
    /\ input.links = <<"B000000002", "B000000001", "B000000002">>
    /\ Len(output.value.Items) = 2
    /\ output.value.Items[1].ASIN = "B000000002"
    /\ output.value.Items[2].ASIN = "B000000001"

\* ------------------------------------------------- transport: failed calls

\* C36: when doRequest returns an error (an authentication failure, or a
\* network failure on the last attempt) the CookieStore holds the cookies
\* it held when the call set the request's Cookie header, whatever cookies
\* the failed responses carried, and Save was not called.
C36_ErrorLeavesStore ==
    \A p \in Procs :
        (pc[p] = "ret" /\ result[p].kind \in {"autherr", "failed"}) =>
            /\ cookies = reqCookies[p]
            /\ idx[p] = 0
            /\ saveCalls[p] = 0

\* C36 happens: after a call that stored session-id = a, a call ends in an
\* authentication failure whose response carries session-id = b and a
\* session-token; the store still holds session-id = a and no token.
C36_Witness ==
    \E p \in Procs :
        /\ pc[p] = "ret"
        /\ result[p].kind = "autherr"
        /\ Len(resp[p].cookies) = 2
        /\ cookies["session-id"] = "a"
        /\ cookies["session-token"] = Absent

\* C36 happens as well: a call whose first attempt was answered 429 and
\* whose last attempt failed in the network returns the error.
C36_WitnessFailed ==
    \E p \in Procs :
        /\ pc[p] = "ret"
        /\ result[p].kind = "failed"
        /\ Len(outcomes[p]) >= 2
        /\ outcomes[p][1] # NetErr
        /\ cookies["session-id"] = "a"

\* ------------------------------------------- orchestrator: a year that fails

\* fetchYearOrders has returned with an error on a page after the first:
\* the year's earlier pages were fetched and parsed, the latest request
\* yielded no page.
FailedOnLaterPage ==
    /\ opc = "year"
    /\ Len(reqs) > Len(pageLens)
    /\ yearSummaries # <<>>

\* C37: when a list-page fetch or parse fails on a later page of a year,
\* the summaries of the year's earlier pages (those the date filter lets
\* pass) are among the summaries FetchOrders goes on with and returns;
\* after the failure only other years' summaries are appended.
C37_EarlierPagesKept ==
    FailedOnLaterPage =>
        \A i \in DOMAIN yearSummaries :
            isWithinDateRange(yearSummaries[i].Date, opts) =>
                \E k \in DOMAIN allSummaries :
                    allSummaries[k].ID = yearSummaries[i].ID

\* ------------------------------------------ orchestrator: limit and filter

\* The pagination of the last year was ended by the limit: its latest page
\* was fetched and parsed and was full, and the year's summaries had
\* reached MaxOrders.
StoppedByLimit ==
    /\ pageLens # <<>>
    /\ Len(reqs) = Len(pageLens)
    /\ pageLens[Len(pageLens)] = pageSize
    /\ Len(yearSummaries) >= opts.MaxOrders

\* The page after the last one fetched would show a summary that passes
\* the date filter, if the year has that page.
InRangeRemains ==
    \E n \in PageLens \ {0} :
        \E i \in 1..n :
            isWithinDateRange(
                PageOf(years[Len(years)], startIndex + pageSize, n,
                       pattern)[i].Date,
                opts)

\* C38: with MaxOrders = m > 0 and a date range, FetchOrders returns fewer
\* than m orders only if fewer than m reachable summaries pass the date
\* filter: when it returns fewer than m, the limit has not ended the last
\* year's pagination before a page that would show summaries in range.
C38_LimitCountsInRange ==
    ( /\ opc = "done"
      /\ oerr = "nil"
      /\ opts.MaxOrders > 0
      /\ opts.StartDate # 0 \/ opts.EndDate # 0
      /\ Len(orders) < opts.MaxOrders
      /\ years # <<>>
      /\ StoppedByLimit ) => ~InRangeRemains

\* -------------------------------------------------- import from curl: claims

\* C39 (as claimed): a call of ImportFromCurl that returns an error leaves
\* the cookies of the store as they were; a call that returns nil leaves
\* every extracted cookie in the store under its name, and the file
\* written.
C39_ImportAllOrNothing ==
    [][(~output.done /\ output'.done)
        => IF output'.value.err # "nil"
           THEN cookies' = cookies
           ELSE LET found == ExtractFromCurl(input).cookies
                IN /\ \A i \in DOMAIN found :
                        \E j \in i .. Len(found) :
                            /\ found[j].name = found[i].name
                            /\ cookies'[Text(found[i].name)]
                                   = Text(found[j].value)
                   /\ cookieFile' \in CookieFilesOf(cookies')]_vars

\* C39's case of a nil result: an import of two cookies into a store that
\* held one of them under another value, the file written.
C39_WitnessNil ==
    /\ fn = "ImportFromCurl"
    /\ output.done
    /\ output.value.err = "nil"
    /\ Len(ExtractFromCurl(input).cookies) = 2
    /\ cookies["session-id"] = "b"
    /\ cookies["test-cookie"] # Absent
    /\ cookieFile.kind = "json"
    /\ Len(cookieFile.cookies) = 2

\* ------------------------------------------------ store snapshots: claims

\* The cookies of the response of q that the snapshot of p holds.
HeldOf(snapshot, q) ==
    {i \in DOMAIN CookiesOf(resp[q]) :
        snapshot[CookiesOf(resp[q])[i].name] = CookiesOf(resp[q])[i].value}

\* C40 (as claimed): the snapshot setCookies takes of the store while
\* another goroutine merges a response of several cookies holds all of
\* the cookies of that response or none of them.
C40_SnapshotAllOrNone ==
    [][\A p, q \in Procs :
         ( /\ p # q
           /\ pc[p] = "headers"
           /\ pc'[p] = "loop"
           /\ pc[q] = "update"
           /\ Len(CookiesOf(resp[q])) > 1 )
         => \/ HeldOf(reqCookies'[p], q) = {}
            \/ HeldOf(reqCookies'[p], q) = DOMAIN CookiesOf(resp[q])]_vars

====
